---- MODULE Spec2Model ----
(***************************************************************************)
(* Model of the smart-bookmark application: the bookmarks table with its   *)
(* unique constraint and row-level-security policies, the mutation         *)
(* handlers (AddBookmarkForm.handleSubmit, the PATCH route,                *)
(* BookmarkCard.handleDelete), the BookmarkList view with its realtime     *)
(* subscription, and the URL validators.                                   *)
(*                                                                         *)
(* Strings are sequences of one-character strings, so that trim() and the  *)
(* URL parser work on the characters as the code does.                     *)
(***************************************************************************)
EXTENDS Integers, Sequences, FiniteSets, TLC

\* ------------------------------------------------------------------------
\* Strings
\* ------------------------------------------------------------------------

\* String.prototype.trim(): drop leading and trailing white space.
RECURSIVE TrimStart(_)
TrimStart(s) ==
    IF s = <<>> THEN <<>>
    ELSE IF Head(s) = " " THEN TrimStart(Tail(s)) ELSE s

RECURSIVE TrimEnd(_)
TrimEnd(s) ==
    IF s = <<>> THEN <<>>
    ELSE IF s[Len(s)] = " " THEN TrimEnd(SubSeq(s, 1, Len(s) - 1)) ELSE s

Trim(s) == TrimEnd(TrimStart(s))

\* The letters the model's inputs use, and their lower-case forms.
LowerLetters == {"a", "f", "h", "p", "s", "t"}
UpperLetters == {"A", "H", "P", "T"}
Digits       == {"1"}

ToLowerChar(c) ==
    CASE c = "A" -> "a"
      [] c = "H" -> "h"
      [] c = "P" -> "p"
      [] c = "T" -> "t"
      [] OTHER   -> c

ToLower(s) == [i \in 1..Len(s) |-> ToLowerChar(s[i])]

\* Index of the first element of s that is in set cs, or 0.
RECURSIVE FirstIn(_, _, _)
FirstIn(s, cs, i) ==
    IF i > Len(s) THEN 0
    ELSE IF s[i] \in cs THEN i ELSE FirstIn(s, cs, i + 1)

\* ------------------------------------------------------------------------
\* new URL(input), without a base URL (the WHATWG basic URL parser, for the
\* characters of the model: letters, digits, ":", "/", ".", " ").
\* The result is [ok |-> FALSE] when the constructor throws, else
\* [ok |-> TRUE, protocol |-> scheme + ":", hostname |-> host].
\* ------------------------------------------------------------------------
UrlFailure == [ok |-> FALSE, protocol |-> <<>>, hostname |-> <<>>]

SpecialSchemes ==
    { <<"h","t","t","p">>, <<"h","t","t","p","s">>, <<"f","t","p">> }

SchemeChars == LowerLetters \cup UpperLetters \cup Digits \cup {"."}

\* Forbidden host code points among the model's characters.
ForbiddenHostChars == {" "}

RECURSIVE SkipSlashes(_)
SkipSlashes(s) ==
    IF s # <<>> /\ Head(s) = "/" THEN SkipSlashes(Tail(s)) ELSE s

\* authority state, host state and port state for a special scheme
ParseSpecialAuthority(scheme, rest) ==
    LET afterSlashes == SkipSlashes(rest)
        pathAt    == FirstIn(afterSlashes, {"/"}, 1)
        authority == IF pathAt = 0 THEN afterSlashes
                     ELSE SubSeq(afterSlashes, 1, pathAt - 1)
        portAt    == FirstIn(authority, {":"}, 1)
        host      == IF portAt = 0 THEN authority
                     ELSE SubSeq(authority, 1, portAt - 1)
        port      == IF portAt = 0 THEN <<>>
                     ELSE SubSeq(authority, portAt + 1, Len(authority))
    IN  IF host = <<>> THEN UrlFailure
        ELSE IF \E i \in 1..Len(host) : host[i] \in ForbiddenHostChars
             THEN UrlFailure
        ELSE IF \E i \in 1..Len(port) : port[i] \notin Digits
             THEN UrlFailure
        ELSE [ok |-> TRUE, protocol |-> scheme \o <<":">>,
              hostname |-> ToLower(host)]

URLParse(input) ==
    LET s       == Trim(input)
        colonAt == FirstIn(s, {":"}, 1)
        scheme  == IF colonAt = 0 THEN <<>> ELSE SubSeq(s, 1, colonAt - 1)
        rest    == IF colonAt = 0 THEN <<>> ELSE SubSeq(s, colonAt + 1, Len(s))
    IN  \* scheme start state: the first code point must be an ASCII letter
        IF s = <<>> \/ s[1] \notin (LowerLetters \cup UpperLetters)
            THEN UrlFailure
        \* scheme state: letters, digits, "+", "-", "." up to the ":"
        ELSE IF colonAt = 0 THEN UrlFailure
        ELSE IF \E i \in 1..Len(scheme) : scheme[i] \notin SchemeChars
            THEN UrlFailure
        ELSE IF ToLower(scheme) \in SpecialSchemes
            THEN ParseSpecialAuthority(ToLower(scheme), rest)
        \* a non-special scheme: opaque path or optional authority
        ELSE [ok |-> TRUE, protocol |-> ToLower(scheme) \o <<":">>,
              hostname |-> <<>>]

ProtoHttp  == <<"h","t","t","p",":">>
ProtoHttps == <<"h","t","t","p","s",":">>

\* lib/utils.ts isValidUrl
isValidUrl(url) ==
    LET urlObj == URLParse(url)
    IN  IF ~urlObj.ok THEN FALSE
        ELSE urlObj.protocol = ProtoHttp \/ urlObj.protocol = ProtoHttps

\* A validator that accepts https only
isValidHttpUrl_HttpsOnly(url) ==
    LET u == URLParse(url)
    IN  IF ~u.ok THEN FALSE
        ELSE u.protocol = <<"h","t","t","p","s",":">>

\* app/api/bookmarks/[id]/route.ts isValidHttpUrl
isValidHttpUrl(url) ==
    LET u == URLParse(url)
    IN  IF ~u.ok THEN FALSE
        ELSE u.protocol = ProtoHttp \/ u.protocol = ProtoHttps

\* ------------------------------------------------------------------------
\* Bounds and inputs
\* ------------------------------------------------------------------------
MaxIds   == 2      \* rows ever inserted (gen_random_uuid() values used)
MaxClock == 1      \* largest value of the clock
MaxQueue == 2      \* change events waiting in one subscription

Users   == {"A", "B"}            \* auth.users
NoUser  == "anon"                \* no session: auth.uid() is null
Clients == {"c1", "c2"}          \* browsers, each with its own session

Ids == 1..MaxIds

UrlLower == <<"h","t","t","p",":","/","/","a">>          \* http://a
UrlUpper == <<"h","t","t","p",":","/","/","A">>          \* http://A
UrlFtp   == <<"f","t","p",":","/","/","a">>              \* ftp://a
UrlPad   == <<" ","h","t","t","p",":","/","/","a"," ">>  \* " http://a "
TitleA   == <<"a">>
TitlePad == <<" ","b"," ">>
Blank    == <<" ">>
Empty    == <<>>

\* A JSON body field of a PATCH is a string, a value that is not a string,
\* or missing; a variable of the handler is a string or undefined.  The
\* values that are not strings are one-element sequences that no string of
\* characters equals.
Absent    == << "<absent>" >>
NotString == << "<number>" >>
Undefined == << "<undefined>" >>

IsString(v) == v \notin {Absent, NotString, Undefined}

FormUrls    == {Empty, UrlFtp, UrlLower, UrlUpper}
FormTitles  == {Empty, Blank, TitleA}
BodyUrls    == {Absent, NotString, Empty, Blank, UrlFtp, UrlPad, UrlUpper}
BodyTitles  == {Absent, NotString, Empty, Blank, TitleA, TitlePad}

\* ------------------------------------------------------------------------
\* State
\* ------------------------------------------------------------------------
VARIABLES
    store,      \* the bookmarks table: a set of rows
    nextId,     \* number of ids generated so far
    now,        \* the clock
    session,    \* session[c]: the user signed in at client c, or NoUser
    op,         \* op[c]: the mutation handler running at client c
    view,       \* view[c]: the BookmarkList component of client c
    channel,    \* channel[c]: change events sent to c's subscription
    urlInput,   \* input of the URL validators (validator specification)
    verdict,    \* their results
    searchQuery,\* searchQuery[c]: the text of the dashboard's search bar
    form,       \* the AddBookmarkForm of the first browser and its title request
    card,       \* card[c]: the BookmarkCard in use at client c
    isSaving    \* isSaving[c]: the busy flag of c's AddBookmarkForm

vars == <<store, nextId, now, session, op, view, channel, urlInput, verdict, searchQuery, form, card, isSaving>>

\* No row returned
NoRow == [id |-> 0, user_id |-> NoUser, url |-> <<>>, title |-> <<>>,
          created_at |-> 0, updated_at |-> 0]

\* data is the row a statement returned to a handler that has not answered
\* yet
Idle == [kind |-> "none", pc |-> "idle", id |-> 0, url |-> Undefined,
         title |-> Undefined, user |-> NoUser, asOwner |-> TRUE, at |-> 0,
         checked |-> FALSE, rows |-> 0, status |-> 0, toast |-> "none",
         attached |-> FALSE, data |-> NoRow]

\* No event applied yet
NoEvent == [type |-> "none", id |-> 0]

\* The component's state; last and removed are history: the last change
\* event the list applied, and the ids whose DELETE event it applied.
\* notice is what the list reports about its subscription.  byEvents is
\* history too: the list as the answer of the select and the change events
\* alone make it, without the callbacks of the cards.
NoView == [phase |-> "unmounted", owner |-> NoUser, isLoading |-> TRUE,
           bookmarks |-> <<>>, fetch |-> "none", data |-> <<>>,
           sub |-> "none", last |-> NoEvent, removed |-> {},
           notice |-> "none", byEvents |-> <<>>]

\* The add form as first rendered: useState('') for url and title,
\* useState(false) for isLoadingTitle, no urlError.  The other fields are
\* the run of fetchTitle: its position, the url it was called with, the
\* outcome of the endpoint's fetch of the page, the reply, and the toast
\* it showed.  direct marks a request to the endpoint that is not the
\* form's.
NoReply == [kind |-> "none", status |-> 0, title |-> Undefined]
NoRemote == [kind |-> "none", html |-> <<>>]
NoForm == [url |-> <<>>, title |-> <<>>, isLoadingTitle |-> FALSE,
           urlError |-> FALSE, pc |-> "idle", req |-> Absent,
           direct |-> FALSE, remote |-> NoRemote, reply |-> NoReply,
           toast |-> "none"]

\* The state of a BookmarkCard as first rendered: no dialog, no handler
\* running.  id is the bookmark the card shows (0: no card is in use);
\* editUrl and editTitle are the drafts of the edit dialog (those of a
\* dialog never opened are not recorded: opening sets them).
NoCard == [id |-> 0, isEditOpen |-> FALSE, editUrl |-> <<>>,
           editTitle |-> <<>>, editUrlError |-> FALSE,
           isSavingEdit |-> FALSE, isDeleting |-> FALSE, dirty |-> FALSE]

NoInput == [lead |-> <<>>, scheme |-> <<>>, sep |-> <<>>, host |-> <<>>,
            rest |-> <<>>]

Init ==
    /\ store = {}
    /\ nextId = 0
    /\ now = 0
    /\ session = [c \in Clients |-> NoUser]
    /\ op = [c \in Clients |-> Idle]
    /\ view = [c \in Clients |-> NoView]
    /\ channel = [c \in Clients |-> <<>>]
    /\ urlInput = NoInput
    /\ verdict = [client |-> "none", server |-> "none"]
    /\ searchQuery = [c \in Clients |-> <<>>]
    /\ form = NoForm
    /\ card = [c \in Clients |-> NoCard]
    /\ isSaving = [c \in Clients |-> FALSE]

\* ------------------------------------------------------------------------
\* The bookmarks table (supabase-schema.sql)
\* ------------------------------------------------------------------------
\* A table without the unique constraint
UniqueViolation_Off(rows, row) == FALSE

\* A unique constraint on url alone
UniqueViolation_AnyOwner(rows, row) ==
    \E r \in rows : r.id # row.id /\ r.url = row.url

\* CONSTRAINT unique_user_url UNIQUE(user_id, url), and the primary key
UniqueViolation(rows, row) ==
    \E r \in rows : r.id # row.id /\ r.user_id = row.user_id /\ r.url = row.url

\* A table whose rows every caller may read
SelectPolicy_Off(uid, row) == TRUE

\* POLICY "Users can view own bookmarks" FOR SELECT USING (auth.uid() = user_id)
SelectPolicy(uid, row) == uid # NoUser /\ uid = row.user_id

\* A table any caller may insert into
InsertPolicy_Off(uid, row) == TRUE

\* POLICY "Users can insert own bookmarks" FOR INSERT WITH CHECK (auth.uid() = user_id)
InsertPolicy(uid, row) == uid # NoUser /\ uid = row.user_id

\* POLICY "Users can delete own bookmarks" FOR DELETE USING (auth.uid() = user_id)
DeletePolicy(uid, row) == uid # NoUser /\ uid = row.user_id

\* POLICY "Users can update own bookmarks" FOR UPDATE USING (...) WITH CHECK (...)
UpdatePolicy(uid, row) == uid # NoUser /\ uid = row.user_id

\* The rows a statement run as uid can see.
Visible(uid) == {r \in store : SelectPolicy(uid, r)}

\* ------------------------------------------------------------------------
\* Realtime (postgres_changes on table bookmarks)
\* ------------------------------------------------------------------------
Event(type, row) == [type |-> type, rec |-> row]

\* A change is sent to the joined subscriptions whose user passes the SELECT
\* policy for the row (docs/06-realtime-sync.md, Row-Level Security with
\* Realtime).
Receives(c, row) == view[c].sub = "joined" /\ SelectPolicy(view[c].owner, row)

Broadcast(type, row) ==
    [c \in Clients |->
        IF Receives(c, row) THEN Append(channel[c], Event(type, row))
        ELSE channel[c]]

\* Bound: a commit needs room in the subscriptions that receive it.
HasRoom(row) == \A c \in Clients : Receives(c, row) => Len(channel[c]) < MaxQueue

Mounted(c) == view[c].phase \in {"loading", "live"}
Free(c)    == op[c].pc \in {"idle", "done"}

\* A card of the list shows the row with this id
CardShown(c, id) ==
    /\ view[c].phase = "live"
    /\ \E i \in DOMAIN view[c].bookmarks : view[c].bookmarks[i].id = id

\* The bookmark prop of the card keyed id: the list's entry with that id
BookmarkOf(list, id) ==
    list[CHOOSE i \in DOMAIN list :
            /\ list[i].id = id
            /\ \A j \in DOMAIN list : list[j].id = id => i <= j]

\* An effect that resets the drafts only when the dialog opens
Rendered_OpenOnly(k, old, new) ==
    IF k.id = 0 THEN k
    ELSE IF ~\E i \in DOMAIN new : new[i].id = k.id THEN NoCard
    ELSE k

\* The card after the list was set from old to new.  A card whose bookmark
\* is no longer rendered is unmounted and its state is gone.  With the
\* dialog open, the effect with dependencies [isEditOpen, bookmark.title,
\* bookmark.url] runs when the title or the url of the prop has changed:
\* setEditUrl(bookmark.url), setEditTitle(bookmark.title),
\* setEditUrlError('').  dirty is history: the user has typed into the
\* dialog since the drafts were last set from the bookmark.
Rendered(k, old, new) ==
    IF k.id = 0 THEN k
    ELSE IF ~\E i \in DOMAIN new : new[i].id = k.id THEN NoCard
    ELSE LET was == BookmarkOf(old, k.id)
             b   == BookmarkOf(new, k.id)
         IN  IF k.isEditOpen /\ (b.title # was.title \/ b.url # was.url)
             THEN [k EXCEPT !.editUrl = b.url, !.editTitle = b.title,
                            !.editUrlError = FALSE, !.dirty = FALSE]
             ELSE k

\* ------------------------------------------------------------------------
\* Sessions
\* ------------------------------------------------------------------------

\* app/login/page.tsx: sign in with OAuth
signIn(c, u) ==
    /\ session[c] = NoUser
    /\ session' = [session EXCEPT ![c] = u]
    /\ UNCHANGED <<store, nextId, now, op, view, channel, urlInput, verdict, searchQuery, form, card, isSaving>>

\* A BookmarkList that was unmounted: the effect cleanup has removed the
\* channel (supabase.removeChannel), and the component's state is gone, so
\* that what an unfinished fetch or handler sets later changes nothing.
Disposed == [NoView EXCEPT !.phase = "detached", !.sub = "closed"]

\* Sidebar.handleLogout: signOut(), then router.push('/login') unmounts the
\* dashboard and with it the BookmarkList.
handleLogout(c) ==
    /\ session[c] # NoUser
    /\ session' = [session EXCEPT ![c] = NoUser]
    /\ view' = [view EXCEPT ![c] = IF Mounted(c) THEN Disposed ELSE @]
    /\ channel' = [channel EXCEPT ![c] = <<>>]
    /\ op' = [op EXCEPT ![c].attached = FALSE]
    /\ card' = [card EXCEPT ![c] = NoCard]
    /\ isSaving' = [isSaving EXCEPT ![c] = FALSE]
    /\ UNCHANGED <<store, nextId, now, urlInput, verdict, searchQuery, form>>

Tick ==
    /\ now < MaxClock
    /\ now' = now + 1
    /\ UNCHANGED <<store, nextId, session, op, view, channel, urlInput, verdict, searchQuery, form, card, isSaving>>

\* ------------------------------------------------------------------------
\* AddBookmarkForm.handleSubmit
\* ------------------------------------------------------------------------
\* A handler that has returned: its kind and what it reported
Finished(kind, toast, status) ==
    [Idle EXCEPT !.kind = kind, !.pc = "done", !.toast = toast,
                 !.status = status]

\* From the submit event to the answer of supabase.auth.getUser().  The form
\* is shown in the 'add' section, where the BookmarkList is not mounted.
handleSubmit(c, url, title) ==
    /\ Free(c)
    /\ ~Mounted(c)
    /\ IF url = Empty \/ title = Empty
           THEN op' = [op EXCEPT ![c] = Finished("create", "fill in all fields", 0)]
       ELSE IF ~isValidUrl(url)
           THEN op' = [op EXCEPT ![c] = Finished("create", "invalid url", 0)]
       ELSE IF session[c] = NoUser
           THEN op' = [op EXCEPT ![c] = Finished("create", "must be logged in", 0)]
       ELSE op' = [op EXCEPT ![c] =
                    [Idle EXCEPT !.kind = "create", !.pc = "precheck",
                                 !.url = url, !.title = title,
                                 !.user = session[c], !.attached = TRUE]]
    /\ isSaving' = [isSaving EXCEPT ![c] = (op'[c].pc = "precheck")]
    /\ UNCHANGED <<store, nextId, now, session, view, channel, urlInput, verdict, searchQuery, form, card>>

\* handleSubmit has returned after a store call made as uid: what it
\* reported, the (user, url) it was about, whether the pre-check passed and
\* whether all its store calls ran in the session of the user it read.
Returned(req, uid, toast) ==
    [Finished("create", toast, 0) EXCEPT
        !.url = req.url, !.user = req.user, !.checked = req.checked,
        !.asOwner = req.asOwner /\ uid = req.user]

\* The duplicate pre-check: select id where user_id = user.id and url = url
handleSubmit_precheck(c) ==
    /\ op[c].kind = "create" /\ op[c].pc = "precheck"
    /\ LET existing == {r \in Visible(session[c]) :
                            r.user_id = op[c].user /\ r.url = op[c].url}
       IN  IF existing # {}
               THEN op' = [op EXCEPT ![c] = Returned(op[c], session[c],
                                                     "already bookmarked")]
           ELSE op' = [op EXCEPT ![c].pc = "insert", ![c].checked = TRUE,
                                 ![c].asOwner = (session[c] = op[c].user)]
    /\ isSaving' = [isSaving EXCEPT ![c] = @ /\ op'[c].pc = "insert"]
    /\ UNCHANGED <<store, nextId, now, session, view, channel, urlInput, verdict, searchQuery, form, card>>

\* The BookmarkList effect: fetchBookmarks() and the channel subscription
MountedView(u) ==
    [phase |-> "loading", owner |-> u, isLoading |-> TRUE, bookmarks |-> <<>>,
     fetch |-> "pending", data |-> <<>>, sub |-> "joining", last |-> NoEvent,
     removed |-> {}, notice |-> "none", byEvents |-> <<>>]

\* The row an INSERT of handleSubmit writes: id, created_at and updated_at
\* are the column defaults.
NewRow(c) ==
    [id |-> nextId + 1, user_id |-> op[c].user, url |-> op[c].url,
     title |-> op[c].title, created_at |-> now, updated_at |-> now]

\* The result of the insert statement run as uid: the error code, or "ok"
InsertResult(uid, row) ==
    IF ~InsertPolicy(uid, row) THEN "42501"
    ELSE IF UniqueViolation(store, row) THEN "23505"
    ELSE "ok"

\* A handler without the branch for code 23505
InsertToast_Generic(code) ==
    IF code = "ok" THEN "added" ELSE "failed to add"

\* What handleSubmit reports for it
InsertToast(code) ==
    CASE code = "ok"    -> "added"
      [] code = "23505" -> "already bookmarked"
      [] OTHER          -> "failed to add"

\* The insert, and the rest of the handler.  On success onBookmarkAdded
\* switches the dashboard to the 'bookmarks' section, which mounts the list
\* (unless the dashboard that showed the form is gone).
handleSubmit_insert(c) ==
    /\ op[c].kind = "create" /\ op[c].pc = "insert"
    /\ LET row  == NewRow(c)
           uid  == session[c]
           code == InsertResult(uid, row)
       IN  IF code # "ok"
               THEN /\ op' = [op EXCEPT ![c] =
                                Returned(op[c], uid, InsertToast(code))]
                    /\ UNCHANGED <<store, nextId, view, channel>>
           ELSE /\ nextId < MaxIds
                /\ HasRoom(row)
                /\ store' = store \cup {row}
                /\ nextId' = nextId + 1
                /\ op' = [op EXCEPT ![c] =
                            Returned(op[c], uid, InsertToast(code))]
                /\ view' = [view EXCEPT ![c] =
                              IF op[c].attached /\ ~Mounted(c)
                              THEN MountedView(uid) ELSE @]
                /\ channel' = Broadcast("INSERT", row)
    /\ isSaving' = [isSaving EXCEPT ![c] = FALSE]
    /\ UNCHANGED <<now, session, urlInput, verdict, searchQuery, form, card>>

\* ------------------------------------------------------------------------
\* PATCH /api/bookmarks/[id]
\* ------------------------------------------------------------------------
Respond(c, status) ==
    op' = [op EXCEPT ![c] = Finished("patch", "none", status)]

\* A handler without the check for empty strings
Validate_NoEmptyCheck(title, url) ==
    IF url # Undefined /\ ~isValidHttpUrl(url) THEN 400
    ELSE IF title = Undefined /\ url = Undefined THEN 400
    ELSE 0

\* The checks on the trimmed title and url before the store is used:
\* the status of the error response, or 0
Validate(title, url) ==
    IF title = Empty \/ url = Empty THEN 400
    ELSE IF url # Undefined /\ ~isValidHttpUrl(url) THEN 400
    ELSE IF title = Undefined /\ url = Undefined THEN 400
    ELSE 0

\* A handler that goes on to the store call without the getUser() check
PATCH_NoAuth(c, id, bodyTitle, bodyUrl) ==
    /\ Free(c)
    /\ LET title == IF IsString(bodyTitle) THEN Trim(bodyTitle) ELSE Undefined
           url   == IF IsString(bodyUrl) THEN Trim(bodyUrl) ELSE Undefined
       IN  IF Validate(title, url) # 0
               THEN Respond(c, Validate(title, url))
           ELSE op' = [op EXCEPT ![c] =
                        [Idle EXCEPT !.kind = "patch", !.pc = "update",
                                     !.id = id, !.title = title, !.url = url,
                                     !.user = session[c], !.at = now,
                                     !.attached = CardShown(c, id)]]
    /\ UNCHANGED <<store, nextId, now, session, view, channel, urlInput, verdict, searchQuery, form, card, isSaving>>

\* The handler up to the store call: body parsing, validation, getUser()
\* on the request's session, and the updated_at taken from the clock.  The
\* request comes from the edit dialog of a card (BookmarkCard.handleSaveEdit)
\* when the list shows the row, else from another caller of the endpoint.
PATCH(c, id, bodyTitle, bodyUrl) ==
    /\ Free(c)
    /\ LET title == IF IsString(bodyTitle) THEN Trim(bodyTitle) ELSE Undefined
           url   == IF IsString(bodyUrl) THEN Trim(bodyUrl) ELSE Undefined
       IN  IF Validate(title, url) # 0
               THEN Respond(c, Validate(title, url))
           ELSE IF session[c] = NoUser
               THEN Respond(c, 401)
           ELSE op' = [op EXCEPT ![c] =
                        [Idle EXCEPT !.kind = "patch", !.pc = "update",
                                     !.id = id, !.title = title, !.url = url,
                                     !.user = session[c], !.at = now,
                                     !.attached = CardShown(c, id)]]
    /\ UNCHANGED <<store, nextId, now, session, view, channel, urlInput, verdict, searchQuery, form, card, isSaving>>

\* An update that writes both fields, also one the body does not have
Updated_Overwrite(row, req) ==
    [row EXCEPT !.updated_at = req.at, !.title = req.title, !.url = req.url]

\* An update that leaves updated_at to a column default
Updated_Epoch(row, req) ==
    [row EXCEPT !.updated_at = 0,
                !.title = IF req.title # Undefined THEN req.title ELSE @,
                !.url = IF req.url # Undefined THEN req.url ELSE @]

\* updates = {updated_at, title?, url?} applied to a row
Updated(row, req) ==
    [row EXCEPT !.updated_at = req.at,
                !.title = IF req.title # Undefined THEN req.title ELSE @,
                !.url = IF req.url # Undefined THEN req.url ELSE @]

\* An update that finds its row by id alone
UpdateTargets_AnyOwner(req) == {r \in store : r.id = req.id}

\* The rows update(updates).eq('id', id).eq('user_id', user.id) applies to.
\* The server client runs the statement in the session of the request, the
\* one getUser() read.
UpdateTargets(req) ==
    {r \in store : /\ r.id = req.id
                   /\ r.user_id = req.user
                   /\ UpdatePolicy(req.user, r)}

\* The result of the update statement with .select('*').single()
UpdateResult(req) ==
    IF UpdateTargets(req) = {} THEN "PGRST116"
    ELSE LET new == Updated(CHOOSE r \in UpdateTargets(req) : TRUE, req)
         IN  IF UniqueViolation(store, new) THEN "23505"
             ELSE IF ~UpdatePolicy(req.user, new) THEN "42501"
             ELSE "ok"

\* A handler without the branch for code 23505
StatusOf_NoConflict(code) ==
    CASE code = "ok"       -> 200
      [] code = "PGRST116" -> 404
      [] OTHER             -> 500

\* The status the handler answers with
StatusOf(code) ==
    CASE code = "ok"       -> 200
      [] code = "23505"    -> 409
      [] code = "PGRST116" -> 404
      [] OTHER             -> 500

\* A PATCH that was answered after its store call: the status and the id
Answered(req, status) ==
    [Finished("patch", "none", status) EXCEPT !.id = req.id]

\* BookmarkList.handleBookmarkUpdated
handleBookmarkUpdated(list, bookmark) ==
    [i \in DOMAIN list |->
        IF list[i].id = bookmark.id THEN bookmark ELSE list[i]]

\* The update statement at the store.  The response to a request that
\* came from a card of a mounted list is still on its way to the browser
\* after this step (pc = "resp"); any other response has no effect there
\* and the handler is done.  An error response to handleSaveEdit is taken
\* with this step: toast.error(...) and return without onUpdated and
\* without setIsEditOpen(false), then setIsSavingEdit(false) in finally.
PATCH_update(c) ==
    /\ op[c].kind = "patch" /\ op[c].pc = "update"
    /\ LET code == UpdateResult(op[c])
       IN  IF code # "ok"
               THEN /\ op' = [op EXCEPT ![c] = Answered(op[c], StatusOf(code))]
                    /\ UNCHANGED <<store, channel>>
           ELSE LET old == CHOOSE r \in UpdateTargets(op[c]) : TRUE
                    new == Updated(old, op[c])
                IN  /\ HasRoom(new)
                    /\ store' = (store \ {old}) \cup {new}
                    /\ channel' = Broadcast("UPDATE", new)
                    /\ op' = [op EXCEPT ![c] =
                                IF op[c].attached /\ Mounted(c)
                                THEN [op[c] EXCEPT !.pc = "resp", !.data = new]
                                ELSE Answered(op[c], StatusOf(code))]
    /\ card' = [card EXCEPT ![c].isSavingEdit = @ /\ op'[c].pc = "resp"]
    /\ UNCHANGED <<nextId, now, session, view, urlInput, verdict, searchQuery,
                   form, isSaving>>

\* A response that replaces the whole list by the row it carries
PATCH_resp_Reset(c) ==
    /\ op[c].kind = "patch" /\ op[c].pc = "resp"
    /\ op' = [op EXCEPT ![c] = Answered(op[c], 200)]
    /\ view' = [view EXCEPT ![c].bookmarks =
                  IF op[c].attached /\ Mounted(c) THEN <<op[c].data>> ELSE @]
    /\ UNCHANGED <<store, nextId, now, session, channel, urlInput, verdict,
                   searchQuery, form, card, isSaving>>

\* handleSaveEdit after its request: the response with the updated row
\* arrives, toast.success('Bookmark updated') and onUpdated(updated), which
\* is BookmarkList.handleBookmarkUpdated
PATCH_resp(c) ==
    /\ op[c].kind = "patch" /\ op[c].pc = "resp"
    /\ op' = [op EXCEPT ![c] = Answered(op[c], 200)]
    /\ view' = [view EXCEPT ![c].bookmarks =
                  IF op[c].attached /\ Mounted(c)
                  THEN handleBookmarkUpdated(@, op[c].data) ELSE @]
    /\ card' = [card EXCEPT ![c] =
                  Rendered(IF @.isSavingEdit
                           THEN [@ EXCEPT !.isEditOpen = FALSE,
                                          !.isSavingEdit = FALSE]
                           ELSE @,
                           view[c].bookmarks, view'[c].bookmarks)]
    /\ UNCHANGED <<store, nextId, now, session, channel, urlInput, verdict,
                   searchQuery, form, isSaving>>

\* ------------------------------------------------------------------------
\* BookmarkCard.handleDelete
\* ------------------------------------------------------------------------

\* setBookmarks(current => current.filter(b => b.id !== id))
RemoveId(list, id) == SelectSeq(list, LAMBDA b : b.id # id)

\* The click on the delete button of the card of bookmark id (confirmed)
handleDelete(c, id) ==
    /\ Free(c)
    /\ ~card[c].isEditOpen
    /\ op' = [op EXCEPT ![c] =
                [Idle EXCEPT !.kind = "delete", !.pc = "delete", !.id = id,
                             !.attached = TRUE]]
    /\ card' = [card EXCEPT ![c] =
                  IF ~CardShown(c, id) THEN @
                  ELSE IF @.id = id THEN [@ EXCEPT !.isDeleting = TRUE]
                  ELSE [NoCard EXCEPT !.id = id, !.isDeleting = TRUE]]
    /\ UNCHANGED <<store, nextId, now, session, view, channel, urlInput, verdict, searchQuery, form, isSaving>>

\* delete().eq('id', bookmark.id) at the store
handleDelete_store(c) ==
    /\ op[c].kind = "delete" /\ op[c].pc = "delete"
    /\ LET uid  == session[c]
           gone == {r \in store : r.id = op[c].id /\ DeletePolicy(uid, r)}
       IN  /\ \A r \in gone : HasRoom(r)
           /\ store' = store \ gone
           /\ channel' = IF gone = {} THEN channel
                         ELSE Broadcast("DELETE", CHOOSE r \in gone : TRUE)
           /\ op' = [op EXCEPT ![c].pc = "resp",
                               ![c].rows = Cardinality(gone)]
    /\ UNCHANGED <<nextId, now, session, view, urlInput, verdict, searchQuery, form, card, isSaving>>

\* The call returns without error: toast.success('Bookmark deleted') and
\* onDelete(bookmark.id), which is BookmarkList.handleBookmarkDeleted
handleDelete_resp(c) ==
    /\ op[c].kind = "delete" /\ op[c].pc = "resp"
    /\ op' = [op EXCEPT ![c] =
                [Finished("delete", "deleted", 0) EXCEPT !.rows = op[c].rows]]
    /\ view' = [view EXCEPT ![c].bookmarks =
                  IF op[c].attached /\ Mounted(c) THEN RemoveId(@, op[c].id) ELSE @]
    /\ card' = [card EXCEPT ![c] =
                  Rendered([@ EXCEPT !.isDeleting = FALSE],
                           view[c].bookmarks, view'[c].bookmarks)]
    /\ UNCHANGED <<store, nextId, now, session, channel, urlInput, verdict, searchQuery, form, isSaving>>

\* ------------------------------------------------------------------------
\* AddBookmarkForm.handleSubmit, await by await
\* ------------------------------------------------------------------------
\* handleSubmit up to its first await: the checks of the fields, then
\* setIsSaving(true) and the call of supabase.auth.getUser()
handleSubmit_begin(c, url, title) ==
    /\ Free(c)
    /\ ~Mounted(c)
    /\ IF url = Empty \/ title = Empty
           THEN op' = [op EXCEPT ![c] = Finished("create", "fill in all fields", 0)]
       ELSE IF ~isValidUrl(url)
           THEN op' = [op EXCEPT ![c] = Finished("create", "invalid url", 0)]
       ELSE op' = [op EXCEPT ![c] =
                    [Idle EXCEPT !.kind = "create", !.pc = "getUser",
                                 !.url = url, !.title = title,
                                 !.attached = TRUE]]
    /\ isSaving' = [isSaving EXCEPT ![c] = (op'[c].pc = "getUser")]
    /\ UNCHANGED <<store, nextId, now, session, view, channel, urlInput,
                   verdict, searchQuery, form, card>>

\* A handler that returns from the not-logged-in branch without its finally
handleSubmit_getUser_Stuck(c) ==
    /\ op[c].kind = "create" /\ op[c].pc = "getUser"
    /\ IF session[c] = NoUser
           THEN op' = [op EXCEPT ![c] = Finished("create", "must be logged in", 0)]
       ELSE op' = [op EXCEPT ![c].pc = "precheck", ![c].user = session[c]]
    /\ UNCHANGED <<store, nextId, now, session, view, channel, urlInput,
                   verdict, searchQuery, form, card, isSaving>>

\* getUser() is answered: without a user toast.error('You must be logged in
\* to add bookmarks') and return, through finally { setIsSaving(false) }
handleSubmit_getUser(c) ==
    /\ op[c].kind = "create" /\ op[c].pc = "getUser"
    /\ IF session[c] = NoUser
           THEN /\ op' = [op EXCEPT ![c] = Finished("create", "must be logged in", 0)]
                /\ isSaving' = [isSaving EXCEPT ![c] = FALSE]
       ELSE /\ op' = [op EXCEPT ![c].pc = "precheck", ![c].user = session[c]]
            /\ UNCHANGED isSaving
    /\ UNCHANGED <<store, nextId, now, session, view, channel, urlInput,
                   verdict, searchQuery, form, card>>

\* The insert is answered with an error that is not 23505 (the request or
\* the store failed): throw error, caught: toast.error('Failed to add
\* bookmark. Please try again.'), then finally { setIsSaving(false) }
handleSubmit_error(c) ==
    /\ op[c].kind = "create" /\ op[c].pc = "insert"
    /\ op' = [op EXCEPT ![c] = Returned(op[c], session[c], "failed to add")]
    /\ isSaving' = [isSaving EXCEPT ![c] = FALSE]
    /\ UNCHANGED <<store, nextId, now, session, view, channel, urlInput,
                   verdict, searchQuery, form, card>>

\* ------------------------------------------------------------------------
\* BookmarkCard: the failed delete and the edit dialog
\* ------------------------------------------------------------------------
\* The delete is answered with an error (the request or the store failed):
\* throw error, caught: toast.error('Failed to delete bookmark'), onDelete
\* is not called, then finally { setIsDeleting(false) }
handleDelete_error(c) ==
    /\ op[c].kind = "delete" /\ op[c].pc = "delete"
    /\ op' = [op EXCEPT ![c] =
                [Finished("delete", "failed to delete", 0) EXCEPT
                    !.id = op[c].id]]
    /\ card' = [card EXCEPT ![c].isDeleting = FALSE]
    /\ UNCHANGED <<store, nextId, now, session, view, channel, urlInput,
                   verdict, searchQuery, form, isSaving>>

\* A handler of one card runs, so that the model's record of the card in
\* use cannot be given to another card
InUse(k) == k.isEditOpen \/ k.isSavingEdit \/ k.isDeleting

\* The click on the edit button of the card of bookmark id: setIsEditOpen(
\* true), and the effect sets the drafts from the bookmark
handleOpenEdit(c, id) ==
    /\ CardShown(c, id)
    /\ ~card[c].isEditOpen
    /\ card[c].id = id \/ ~InUse(card[c])
    /\ LET b == BookmarkOf(view[c].bookmarks, id)
           k == IF card[c].id = id THEN card[c] ELSE NoCard
       IN  card' = [card EXCEPT ![c] =
                      [k EXCEPT !.id = id, !.isEditOpen = TRUE,
                                !.editUrl = b.url, !.editTitle = b.title,
                                !.editUrlError = FALSE, !.dirty = FALSE]]
    /\ UNCHANGED <<store, nextId, now, session, op, view, channel, urlInput,
                   verdict, searchQuery, form, isSaving>>

\* handleCloseEdit: the close button, Cancel (disabled while saving) or a
\* click on the overlay
handleCloseEdit(c) ==
    /\ card[c].isEditOpen
    /\ card' = [card EXCEPT ![c].isEditOpen = FALSE,
                            ![c].editUrlError = FALSE]
    /\ UNCHANGED <<store, nextId, now, session, op, view, channel, urlInput,
                   verdict, searchQuery, form, isSaving>>

\* The user types into the url input of the dialog (disabled while saving)
setEditUrl(c, u) ==
    /\ card[c].isEditOpen /\ ~card[c].isSavingEdit
    /\ card' = [card EXCEPT ![c].editUrl = u, ![c].dirty = TRUE]
    /\ UNCHANGED <<store, nextId, now, session, op, view, channel, urlInput,
                   verdict, searchQuery, form, isSaving>>

\* The user types into the title input of the dialog
setEditTitle(c, t) ==
    /\ card[c].isEditOpen /\ ~card[c].isSavingEdit
    /\ card' = [card EXCEPT ![c].editTitle = t, ![c].dirty = TRUE]
    /\ UNCHANGED <<store, nextId, now, session, op, view, channel, urlInput,
                   verdict, searchQuery, form, isSaving>>

\* The click on Save (disabled while saving and while a draft is blank):
\* the drafts are trimmed and the url is checked; then setIsSavingEdit(
\* true) and the PATCH request with both fields, which the route handler
\* takes up to its store call.  An answer the route gives before its store
\* call is an error response: toast.error, return, finally.
handleSaveEdit(c) ==
    /\ Free(c)
    /\ card[c].isEditOpen /\ ~card[c].isSavingEdit
    /\ Trim(card[c].editUrl) # Empty /\ Trim(card[c].editTitle) # Empty
    /\ LET url   == Trim(card[c].editUrl)
           title == Trim(card[c].editTitle)
       IN  IF ~isValidUrl(url)
               THEN /\ card' = [card EXCEPT ![c].editUrlError = TRUE]
                    /\ UNCHANGED op
           ELSE /\ op' = [op EXCEPT ![c] =
                            IF Validate(Trim(title), Trim(url)) # 0
                                THEN Finished("patch", "none",
                                              Validate(Trim(title), Trim(url)))
                            ELSE IF session[c] = NoUser
                                THEN Finished("patch", "none", 401)
                            ELSE [Idle EXCEPT !.kind = "patch", !.pc = "update",
                                              !.id = card[c].id,
                                              !.title = Trim(title),
                                              !.url = Trim(url),
                                              !.user = session[c], !.at = now,
                                              !.attached = TRUE]]
                /\ card' = [card EXCEPT ![c].editUrlError = FALSE,
                                        ![c].isSavingEdit =
                                            (op'[c].pc = "update")]
    /\ UNCHANGED <<store, nextId, now, session, view, channel, urlInput,
                   verdict, searchQuery, form, isSaving>>

\* A handler whose catch block closes the dialog
handleSaveEdit_throw_Close(c) ==
    /\ op[c].kind = "patch" /\ op[c].pc \in {"update", "resp"}
    /\ card[c].isSavingEdit
    /\ op' = [op EXCEPT ![c] =
                [Answered(op[c], 0) EXCEPT !.toast = "failed to update"]]
    /\ card' = [card EXCEPT ![c].isSavingEdit = FALSE,
                            ![c].isEditOpen = FALSE]
    /\ UNCHANGED <<store, nextId, now, session, view, channel, urlInput,
                   verdict, searchQuery, form, isSaving>>

\* fetch() rejects (the request or the response is lost): caught,
\* toast.error('Failed to update bookmark'), onUpdated is not called and
\* the dialog is not closed, then finally { setIsSavingEdit(false) }
handleSaveEdit_throw(c) ==
    /\ op[c].kind = "patch" /\ op[c].pc \in {"update", "resp"}
    /\ card[c].isSavingEdit
    /\ op' = [op EXCEPT ![c] =
                [Answered(op[c], 0) EXCEPT !.toast = "failed to update"]]
    /\ card' = [card EXCEPT ![c].isSavingEdit = FALSE]
    /\ UNCHANGED <<store, nextId, now, session, view, channel, urlInput,
                   verdict, searchQuery, form, isSaving>>

\* ------------------------------------------------------------------------
\* BookmarkList
\* ------------------------------------------------------------------------

\* The dashboard shows the 'bookmarks' section (page load or section switch):
\* a BookmarkList is mounted, its effect starts fetchBookmarks() and
\* subscribes the channel.  The dashboard renders only for a signed-in user.
Mount(c) ==
    /\ ~Mounted(c)
    /\ session[c] # NoUser
    /\ view' = [view EXCEPT ![c] = MountedView(session[c])]
    /\ channel' = [channel EXCEPT ![c] = <<>>]
    /\ isSaving' = [isSaving EXCEPT ![c] = FALSE]
    /\ UNCHANGED <<store, nextId, now, session, op, urlInput, verdict, searchQuery, form, card>>

\* An unmount whose effect has no cleanup: the channel stays subscribed
Unmount_KeepChannel(c) ==
    /\ Mounted(c)
    /\ view' = [view EXCEPT ![c] = [Disposed EXCEPT !.sub = view[c].sub,
                                                    !.owner = view[c].owner]]
    /\ op' = [op EXCEPT ![c].attached =
                          IF op[c].kind \in {"delete", "patch"} THEN FALSE ELSE @]
    /\ card' = [card EXCEPT ![c] = NoCard]
    /\ UNCHANGED <<store, nextId, now, session, channel, urlInput, verdict, searchQuery, form, isSaving>>

\* The dashboard switches to the 'add' section: the list is unmounted and
\* the effect cleanup removes the channel.
Unmount(c) ==
    /\ Mounted(c)
    /\ view' = [view EXCEPT ![c] = Disposed]
    /\ channel' = [channel EXCEPT ![c] = <<>>]
    /\ op' = [op EXCEPT ![c].attached =
                          IF op[c].kind \in {"delete", "patch"} THEN FALSE ELSE @]
    /\ card' = [card EXCEPT ![c] = NoCard]
    /\ UNCHANGED <<store, nextId, now, session, urlInput, verdict, searchQuery, form, isSaving>>

\* .subscribe(): the channel has joined and changes committed from now on
\* are sent to it
subscribed(c) ==
    /\ view[c].sub = "joining"
    /\ view' = [view EXCEPT ![c].sub = "joined"]
    /\ UNCHANGED <<store, nextId, now, session, op, channel, urlInput, verdict, searchQuery, form, card, isSaving>>

\* The orders of a select with ascending: true
Ordered_Ascending(rows) ==
    {q \in [1..Cardinality(rows) -> rows] :
        /\ \A i, j \in DOMAIN q : i # j => q[i] # q[j]
        /\ \A i, j \in DOMAIN q : i < j => q[i].created_at <= q[j].created_at}

\* The orders "order by created_at desc" can return the rows in
\* (rows with equal created_at come in any order).
Ordered(rows) ==
    {q \in [1..Cardinality(rows) -> rows] :
        /\ \A i, j \in DOMAIN q : i # j => q[i] # q[j]
        /\ \A i, j \in DOMAIN q : i < j => q[i].created_at >= q[j].created_at}

\* select('*').order('created_at', {ascending: false}) at the store
fetchBookmarks_store(c) ==
    /\ view[c].fetch = "pending"
    /\ \E data \in Ordered(Visible(session[c])) :
           view' = [view EXCEPT ![c].fetch = "resolved", ![c].data = data]
    /\ UNCHANGED <<store, nextId, now, session, op, channel, urlInput, verdict, searchQuery, form, card, isSaving>>

\* The select is answered with an error (the request or the store failed)
fetchBookmarks_error(c) ==
    /\ view[c].fetch = "pending"
    /\ view' = [view EXCEPT ![c].fetch = "failed"]
    /\ UNCHANGED <<store, nextId, now, session, op, channel, urlInput, verdict, searchQuery, form, card, isSaving>>

\* A fetchBookmarks whose setIsLoading(false) is at the end of the try block
fetchBookmarks_NoFinally(c) ==
    /\ view[c].fetch \in {"resolved", "failed"}
    /\ view' = IF view[c].fetch = "failed"
               THEN [view EXCEPT ![c].fetch = "error"]
               ELSE [view EXCEPT ![c].fetch = "done",
                                 ![c].bookmarks = view[c].data,
                                 ![c].byEvents = view[c].data,
                                 ![c].data = <<>>, ![c].isLoading = FALSE,
                                 ![c].phase = "live"]
    /\ UNCHANGED <<store, nextId, now, session, op, channel, urlInput, verdict, searchQuery, form, card, isSaving>>

\* The fetch returns.  With data: setBookmarks(data || []); with an error:
\* toast.error('Failed to load bookmarks'), recorded as fetch = "error", and
\* the list stays as it is.  In both cases setIsLoading(false), after which
\* the list is rendered.
fetchBookmarks(c) ==
    /\ view[c].fetch \in {"resolved", "failed"}
    /\ view' = IF view[c].fetch = "failed"
               THEN [view EXCEPT ![c].fetch = "error", ![c].isLoading = FALSE,
                                 ![c].phase = "live"]
               ELSE [view EXCEPT ![c].fetch = "done",
                                 ![c].bookmarks = view[c].data,
                                 ![c].byEvents = view[c].data,
                                 ![c].data = <<>>, ![c].isLoading = FALSE,
                                 ![c].phase = "live"]
    /\ UNCHANGED <<store, nextId, now, session, op, channel, urlInput, verdict, searchQuery, form, card, isSaving>>

\* The three postgres_changes callbacks
OnInsert(list, ev) == <<ev.rec>> \o list

\* A DELETE callback with the test of the filter inverted
OnDelete_Inverted(list, ev) == SelectSeq(list, LAMBDA b : b.id = ev.rec.id)

OnDelete(list, ev) == SelectSeq(list, LAMBDA b : b.id # ev.rec.id)

\* An UPDATE callback that moves the updated bookmark to the front
OnUpdate_ToFront(list, ev) ==
    IF \E i \in DOMAIN list : list[i].id = ev.rec.id
    THEN <<ev.rec>> \o SelectSeq(list, LAMBDA b : b.id # ev.rec.id)
    ELSE list

\* An UPDATE callback that adds a bookmark the list does not have
OnUpdate_Upsert(list, ev) ==
    IF \E i \in DOMAIN list : list[i].id = ev.rec.id
    THEN [i \in DOMAIN list |->
             IF list[i].id = ev.rec.id THEN ev.rec ELSE list[i]]
    ELSE <<ev.rec>> \o list

OnUpdate(list, ev) ==
    [i \in DOMAIN list |-> IF list[i].id = ev.rec.id THEN ev.rec ELSE list[i]]

Apply(list, ev) ==
    CASE ev.type = "INSERT" -> OnInsert(list, ev)
      [] ev.type = "DELETE" -> OnDelete(list, ev)
      [] ev.type = "UPDATE" -> OnUpdate(list, ev)

\* The next change event of the subscription arrives
Deliver(c) ==
    /\ Mounted(c)
    /\ channel[c] # <<>>
    /\ LET ev == Head(channel[c])
       IN  view' = [view EXCEPT
                      ![c].bookmarks = Apply(@, ev),
                      ![c].byEvents = Apply(@, ev),
                      ![c].last = [type |-> ev.type, id |-> ev.rec.id],
                      ![c].removed = IF ev.type = "DELETE"
                                     THEN @ \cup {ev.rec.id} ELSE @]
    /\ channel' = [channel EXCEPT ![c] = Tail(@)]
    /\ card' = [card EXCEPT ![c] =
                  Rendered(@, view[c].bookmarks, view'[c].bookmarks)]
    /\ UNCHANGED <<store, nextId, now, session, op, urlInput, verdict, searchQuery, form, isSaving>>

\* The connection of the subscription breaks (CHANNEL_ERROR, TIMED_OUT or
\* CLOSED): the events not yet delivered are lost.  The channel was
\* subscribed with .subscribe(), without a status callback, so nothing in
\* the component runs.
channelError(c) ==
    /\ Mounted(c) /\ view[c].sub = "joined"
    /\ view' = [view EXCEPT ![c].sub = "errored"]
    /\ channel' = [channel EXCEPT ![c] = <<>>]
    /\ UNCHANGED <<store, nextId, now, session, op, urlInput, verdict,
                   searchQuery, form, card, isSaving>>

\* The realtime client joins the channel again by itself
rejoined(c) ==
    /\ Mounted(c) /\ view[c].sub = "errored"
    /\ view' = [view EXCEPT ![c].sub = "joined"]
    /\ UNCHANGED <<store, nextId, now, session, op, channel, urlInput, verdict,
                   searchQuery, form, card, isSaving>>

\* ------------------------------------------------------------------------
\* Specifications
\* ------------------------------------------------------------------------

\* The users each browser signs in as: both browsers as A (two sessions of
\* one owner), the second also as B (two owners).
SignInAs(c) == IF c = "c1" THEN {"A"} ELSE Users

\* Well-formed inputs of the forms and of the PATCH body
GoodUrls       == {UrlLower, UrlUpper}
GoodBodyUrls   == {Absent, UrlUpper}
GoodBodyTitles == {Absent, TitlePad}

\* The ids a request can name: those of the rows inserted so far, and 0
\* for a uuid the table never generates (the uuids of rows to come cannot
\* be guessed).
Named == 0..nextId

SignIn == \E c \in Clients : \E u \in SignInAs(c) : signIn(c, u)

Logout == \E c \in Clients : handleLogout(c)

Create(urls, titles) ==
    \/ \E c \in Clients, url \in urls, title \in titles :
           handleSubmit(c, url, title)
    \/ \E c \in Clients : handleSubmit_precheck(c)
    \/ \E c \in Clients : handleSubmit_insert(c)

Update(titles, urls) ==
    \/ \E c \in Clients, id \in Named, t \in titles, u \in urls :
           PATCH(c, id, t, u)
    \/ \E c \in Clients : PATCH_update(c)

\* Deletes from cards that show the row
Delete ==
    \/ \E c \in Clients, id \in Ids : CardShown(c, id) /\ handleDelete(c, id)
    \/ \E c \in Clients : handleDelete_store(c)
    \/ \E c \in Clients : handleDelete_resp(c)

\* Deletes from the card of any row inserted so far, in specifications
\* that leave the lists out
DeleteAny ==
    \/ \E c \in Clients, id \in 1..nextId : handleDelete(c, id)
    \/ \E c \in Clients : handleDelete_store(c)
    \/ \E c \in Clients : handleDelete_resp(c)

SwitchToAdd == \E c \in Clients : Unmount(c)

Lists ==
    \/ \E c \in Clients : Mount(c)
    \/ \E c \in Clients : fetchBookmarks_store(c)
    \/ \E c \in Clients : fetchBookmarks(c)

Realtime ==
    \/ \E c \in Clients : subscribed(c)
    \/ \E c \in Clients : Deliver(c)

\* The mutation handlers of two browsers against the table, as the clock
\* advances
Next ==
    \/ SignIn
    \/ Create(GoodUrls, {TitleA})
    \/ Update(GoodBodyTitles, GoodBodyUrls)
    \/ DeleteAny
    \/ Tick

Spec == Init /\ [][Next]_vars

\* Creates, with sessions that end while a handler runs
NextCreate ==
    \/ SignIn
    \/ Logout
    \/ Create(GoodUrls, {TitleA})
    \/ SwitchToAdd

SpecCreate == Init /\ [][NextCreate]_vars

\* Lists and the deletes from their cards
NextCards ==
    \/ SignIn
    \/ Logout
    \/ Create({UrlLower}, {TitleA})
    \/ Delete
    \/ SwitchToAdd
    \/ Lists

SpecCards == Init /\ [][NextCards]_vars

\* Lists kept current by their subscriptions.  Both browsers add bookmarks;
\* the edits and the deletes come from the cards of the first.
Editors == {"c1"}

NextSync ==
    \/ SignIn
    \/ Create({UrlLower}, {TitleA})
    \/ \E c \in Editors, id \in Ids :
           CardShown(c, id) /\ PATCH(c, id, TitlePad, Absent)
    \/ \E c \in Editors : PATCH_update(c)
    \/ \E c \in Editors : PATCH_resp(c)
    \/ \E c \in Editors, id \in Ids : CardShown(c, id) /\ handleDelete(c, id)
    \/ \E c \in Editors : handleDelete_store(c)
    \/ \E c \in Editors : handleDelete_resp(c)
    \/ SwitchToAdd
    \/ Lists
    \/ Realtime

SpecSync == Init /\ [][NextSync]_vars

\* PATCH requests with every kind of body, from a caller with and without a
\* session
NextValidate ==
    \/ SignIn
    \/ Create({UrlLower}, {TitleA})
    \/ \E c \in Editors, id \in Named, t \in BodyTitles, u \in BodyUrls :
           PATCH(c, id, t, u)
    \/ \E c \in Editors : PATCH_update(c)
    \/ SwitchToAdd

SpecValidate == Init /\ [][NextValidate]_vars

\* The add form with every kind of url and title
NextForm ==
    \/ SignIn
    \/ Create(FormUrls, FormTitles)
    \/ SwitchToAdd

SpecForm == Init /\ [][NextForm]_vars

\* One browser adds, edits and deletes bookmarks as the clock advances, and
\* its list loads and follows the changes
NextOrder ==
    \/ signIn("c1", "A")
    \/ \E url \in GoodUrls : handleSubmit("c1", url, TitleA)
    \/ handleSubmit_precheck("c1")
    \/ handleSubmit_insert("c1")
    \/ \E id \in Ids : CardShown("c1", id) /\ PATCH("c1", id, TitlePad, Absent)
    \/ PATCH_update("c1")
    \/ PATCH_resp("c1")
    \/ \E id \in Ids : CardShown("c1", id) /\ handleDelete("c1", id)
    \/ handleDelete_store("c1")
    \/ handleDelete_resp("c1")
    \/ Mount("c1")
    \/ Unmount("c1")
    \/ fetchBookmarks_store("c1")
    \/ fetchBookmarks("c1")
    \/ subscribed("c1")
    \/ Deliver("c1")
    \/ Tick

SpecOrder == Init /\ [][NextOrder]_vars

\* ------------------------------------------------------------------------
\* Two tabs of one owner edit and delete the same bookmark
\* ------------------------------------------------------------------------
TitleOf(c) == IF c = "c1" THEN TitlePad ELSE <<"c">>

\* The bookmark both lists show
SharedRow ==
    [id |-> 1, user_id |-> "A", url |-> UrlLower, title |-> TitleA,
     created_at |-> 0, updated_at |-> 0]

\* Both browsers are signed in as A and their lists are live, subscribed
\* and show the one bookmark of the table
InitEdit ==
    /\ store = {SharedRow}
    /\ nextId = 1
    /\ now = 0
    /\ session = [c \in Clients |-> "A"]
    /\ op = [c \in Clients |-> Idle]
    /\ view = [c \in Clients |->
                 [MountedView("A") EXCEPT
                    !.phase = "live", !.isLoading = FALSE, !.fetch = "done",
                    !.sub = "joined", !.bookmarks = <<SharedRow>>,
                    !.byEvents = <<SharedRow>>]]
    /\ channel = [c \in Clients |-> <<>>]
    /\ urlInput = NoInput
    /\ verdict = [client |-> "none", server |-> "none"]
    /\ searchQuery = [c \in Clients |-> <<>>]
    /\ form = NoForm
    /\ card = [c \in Clients |-> NoCard]
    /\ isSaving = [c \in Clients |-> FALSE]

NextEdit ==
    \/ \E c \in Clients, id \in Ids :
           CardShown(c, id) /\ PATCH(c, id, TitleOf(c), Absent)
    \/ \E c \in Clients : PATCH_update(c)
    \/ \E c \in Clients : PATCH_resp(c)
    \/ Delete
    \/ \E c \in Clients : Deliver(c)
    \/ Tick

SpecEdit == InitEdit /\ [][NextEdit]_vars

\* ------------------------------------------------------------------------
\* The edit dialog of a card in one tab, while the other tab edits and
\* deletes the same bookmark
\* ------------------------------------------------------------------------
DraftTitles == {TitlePad, Blank}
DraftUrls   == {UrlUpper, UrlFtp}

\* The other tab's requests: a new title, or a new url
OtherEdits == {<<(<<"c">>), Absent>>, <<Absent, UrlUpper>>}

\* Both tabs are signed in as A.  The list of the first is live,
\* subscribed and shows the one bookmark of the table; the second has no
\* list, its requests go to the route handler and to the table.
InitCard ==
    /\ store = {SharedRow}
    /\ nextId = 1
    /\ now = 0
    /\ session = [c \in Clients |-> "A"]
    /\ op = [c \in Clients |-> Idle]
    /\ view = [c \in Clients |->
                 IF c = "c1"
                 THEN [MountedView("A") EXCEPT
                         !.phase = "live", !.isLoading = FALSE,
                         !.fetch = "done", !.sub = "joined",
                         !.bookmarks = <<SharedRow>>,
                         !.byEvents = <<SharedRow>>]
                 ELSE NoView]
    /\ channel = [c \in Clients |-> <<>>]
    /\ urlInput = NoInput
    /\ verdict = [client |-> "none", server |-> "none"]
    /\ searchQuery = [c \in Clients |-> <<>>]
    /\ form = NoForm
    /\ card = [c \in Clients |-> NoCard]
    /\ isSaving = [c \in Clients |-> FALSE]

NextCard ==
    \/ \E id \in Ids : handleOpenEdit("c1", id)
    \/ \E u \in DraftUrls : setEditUrl("c1", u)
    \/ \E t \in DraftTitles : setEditTitle("c1", t)
    \/ handleCloseEdit("c1")
    \/ handleSaveEdit("c1")
    \/ handleSaveEdit_throw("c1")
    \/ \E id \in 1..nextId, e \in OtherEdits : PATCH("c2", id, e[1], e[2])
    \/ \E c \in Clients : PATCH_update(c)
    \/ PATCH_resp("c1")
    \/ \E id \in Ids : CardShown("c1", id) /\ handleDelete("c1", id)
    \/ \E id \in 1..nextId : handleDelete("c2", id)
    \/ \E c \in Clients : handleDelete_store(c)
    \/ handleDelete_error("c1")
    \/ \E c \in Clients : handleDelete_resp(c)
    \/ Deliver("c1")

SpecCard == InitCard /\ [][NextCard]_vars

\* ------------------------------------------------------------------------
\* The busy flags of the three mutation handlers of one browser
\* ------------------------------------------------------------------------
\* The continuations of the handlers' awaits: a call that was made is
\* answered, with a result or with an error
Answers(c) ==
    \/ handleSubmit_getUser(c)
    \/ handleSubmit_precheck(c)
    \/ handleSubmit_insert(c)
    \/ handleSubmit_error(c)
    \/ handleDelete_store(c)
    \/ handleDelete_error(c)
    \/ handleDelete_resp(c)
    \/ PATCH_update(c)
    \/ PATCH_resp(c)
    \/ handleSaveEdit_throw(c)

NextBusy ==
    \/ signIn("c1", "A")
    \/ handleLogout("c1")
    \/ \E url \in GoodUrls : handleSubmit_begin("c1", url, TitleA)
    \/ handleSubmit_getUser("c1")
    \/ handleSubmit_precheck("c1")
    \/ handleSubmit_insert("c1")
    \/ handleSubmit_error("c1")
    \/ Mount("c1")
    \/ Unmount("c1")
    \/ fetchBookmarks_store("c1")
    \/ fetchBookmarks("c1")
    \/ subscribed("c1")
    \/ Deliver("c1")
    \/ \E id \in Ids : CardShown("c1", id) /\ handleDelete("c1", id)
    \/ handleDelete_store("c1")
    \/ handleDelete_error("c1")
    \/ handleDelete_resp("c1")
    \/ \E id \in Ids : handleOpenEdit("c1", id)
    \/ setEditUrl("c1", UrlLower)
    \/ handleCloseEdit("c1")
    \/ handleSaveEdit("c1")
    \/ PATCH_update("c1")
    \/ PATCH_resp("c1")
    \/ handleSaveEdit_throw("c1")

\* Every call that was made is answered, and an event that was sent is
\* delivered (a store call waits for room in the subscription's queue)
FairBusy == WF_vars(Answers("c1")) /\ WF_vars(Deliver("c1"))

SpecBusy == Init /\ [][NextBusy]_vars /\ FairBusy

\* ------------------------------------------------------------------------
\* The initial load of the list
\* ------------------------------------------------------------------------
Failures == \E c \in Clients : fetchBookmarks_error(c)

NextLoad ==
    \/ SignIn
    \/ Create({UrlLower}, {TitleA})
    \/ Lists
    \/ Failures
    \/ SwitchToAdd

\* The continuation of an answered select runs: once the promise is settled
\* the event loop of the browser executes the rest of fetchBookmarks.
FairLoad == \A c \in Clients : WF_vars(fetchBookmarks(c))

SpecLoad == Init /\ [][NextLoad]_vars /\ FairLoad

\* ------------------------------------------------------------------------
\* The change event callbacks on given lists and events
\* ------------------------------------------------------------------------
MaxList == 2

\* A row of owner A as a list or an event carries it
EventRow(id, title) ==
    [id |-> id, user_id |-> "A", url |-> IF id = 1 THEN UrlLower ELSE UrlUpper,
     title |-> title, created_at |-> 0, updated_at |-> 0]

\* The lists of up to MaxList bookmarks, the same bookmark twice included
EventLists ==
    UNION {[1..n -> {EventRow(id, TitleA) : id \in Ids}] : n \in 0..MaxList}

\* INSERT and DELETE events carry the rows as inserted, UPDATE events rows
\* with a new title
Events ==
    {Event(type, EventRow(id, TitleA)) : type \in {"INSERT", "DELETE"}, id \in Ids}
        \cup {Event("UPDATE", EventRow(id, <<"b">>)) : id \in Ids}

EventQueues == UNION {[1..n -> Events] : n \in 1..MaxQueue}

\* The list of the first browser is live with some bookmarks and its
\* subscription has some events to deliver
InitEvents ==
    /\ store = {}
    /\ nextId = 0
    /\ now = 0
    /\ session = [c \in Clients |-> IF c = "c1" THEN "A" ELSE NoUser]
    /\ op = [c \in Clients |-> Idle]
    /\ \E list \in EventLists :
          view = [c \in Clients |->
                    IF c = "c1"
                    THEN [MountedView("A") EXCEPT
                            !.phase = "live", !.isLoading = FALSE,
                            !.fetch = "done", !.sub = "joined",
                            !.bookmarks = list, !.byEvents = list]
                    ELSE NoView]
    /\ \E q \in EventQueues :
          channel = [c \in Clients |-> IF c = "c1" THEN q ELSE <<>>]
    /\ urlInput = NoInput
    /\ verdict = [client |-> "none", server |-> "none"]
    /\ searchQuery = [c \in Clients |-> <<>>]
    /\ form = NoForm
    /\ card = [c \in Clients |-> NoCard]
    /\ isSaving = [c \in Clients |-> FALSE]

NextEvents ==
    \/ \E c \in Clients : Deliver(c)
    \/ \E c \in Clients : channelError(c)
    \/ \E c \in Clients : rejoined(c)

SpecEvents == InitEvents /\ [][NextEvents]_vars

\* ------------------------------------------------------------------------
\* The search filter of the list
\* ------------------------------------------------------------------------

\* String.prototype.includes: q occurs in s from some position on
Includes(s, q) ==
    \E i \in 0..(Len(s) - Len(q)) :
        \A k \in 1..Len(q) : s[i + k] = q[k]

\* A filter that looks at the titles only
filteredBookmarks_TitleOnly(list, query) ==
    SelectSeq(list, LAMBDA b :
        \/ query = <<>>
        \/ Includes(ToLower(b.title), ToLower(query)))

\* useMemo(() => bookmarks.filter(...), [bookmarks, searchQuery]):
\* if (!searchQuery) return true; query = searchQuery.toLowerCase();
\* title.toLowerCase().includes(query) || url.toLowerCase().includes(query)
filteredBookmarks(list, query) ==
    SelectSeq(list, LAMBDA b :
        \/ query = <<>>
        \/ Includes(ToLower(b.title), ToLower(query))
        \/ Includes(ToLower(b.url), ToLower(query)))

\* SearchBar onChange={(e) => onChange(e.target.value)}, which is the
\* dashboard's setSearchQuery
setSearchQuery(c, q) ==
    /\ session[c] # NoUser
    /\ searchQuery[c] # q
    /\ searchQuery' = [searchQuery EXCEPT ![c] = q]
    /\ UNCHANGED <<store, nextId, now, session, op, view, channel, urlInput,
                   verdict, form, card, isSaving>>

\* Bookmarks of owner A with upper and lower case and a space in the title
SearchRow(id) ==
    [id |-> id, user_id |-> "A", created_at |-> 0, updated_at |-> 0,
     url   |-> IF id = 1 THEN UrlLower ELSE <<"h","t","t","p",":","/","/","s">>,
     title |-> IF id = 1 THEN <<"A","p">> ELSE <<"T"," ","f">>]

\* The lists of up to MaxList of them
SearchLists == UNION {[1..n -> {SearchRow(id) : id \in Ids}] : n \in 0..MaxList}

\* What is typed into the search bar
Queries ==
    {<<>>, <<" ">>, <<"a">>, <<"A">>, <<"a","p">>, <<"P">>, <<" ","f">>,
     <<"f">>, <<"f"," ">>, <<" ","a","p">>, <<"/","A">>, <<"t","t">>,
     <<"p","a">>, <<"t","f">>, <<"h","t","t","p","s">>}

InitSearch ==
    /\ store = {}
    /\ nextId = 0
    /\ now = 0
    /\ session = [c \in Clients |-> IF c = "c1" THEN "A" ELSE NoUser]
    /\ op = [c \in Clients |-> Idle]
    /\ \E list \in SearchLists :
          view = [c \in Clients |->
                    IF c = "c1"
                    THEN [MountedView("A") EXCEPT
                            !.phase = "live", !.isLoading = FALSE,
                            !.fetch = "done", !.sub = "joined",
                            !.bookmarks = list, !.byEvents = list]
                    ELSE NoView]
    /\ channel = [c \in Clients |-> <<>>]
    /\ urlInput = NoInput
    /\ verdict = [client |-> "none", server |-> "none"]
    /\ searchQuery = [c \in Clients |-> <<>>]
    /\ form = NoForm
    /\ card = [c \in Clients |-> NoCard]
    /\ isSaving = [c \in Clients |-> FALSE]

NextSearch == \E c \in Clients, q \in Queries : setSearchQuery(c, q)

SpecSearch == InitSearch /\ [][NextSearch]_vars

\* ------------------------------------------------------------------------
\* Title resolution: GET /api/fetch-title and AddBookmarkForm.fetchTitle
\* ------------------------------------------------------------------------

\* A fetched page: a sequence of characters and of the tags "<title>",
\* "</title>" and "<p>" (each one element).
Tags == {"<title>", "</title>", "<p>"}

\* html.match(/<title[^>]*>([^<]+)<\/title>/i): the first title tag that
\* is followed by one or more characters other than "<" and then by the
\* closing tag; the match's group 1 is these characters.
MatchTitle(html) ==
    LET Closes(i, j) ==
            /\ i + 1 < j /\ html[i] = "<title>" /\ html[j] = "</title>"
            /\ \A k \in (i + 1)..(j - 1) : html[k] \notin Tags
        Opens == {i \in DOMAIN html : \E j \in DOMAIN html : Closes(i, j)}
    IN  IF Opens = {} THEN [found |-> FALSE, text |-> <<>>]
        ELSE LET i == CHOOSE x \in Opens : \A y \in Opens : x <= y
                 j == CHOOSE y \in DOMAIN html : Closes(i, y)
             IN  [found |-> TRUE, text |-> SubSeq(html, i + 1, j - 1)]

Pages ==
    { <<>>,
      << "<title>", "T", "</title>" >>,
      << "<p>", "<title>", " ", "a", " ", "</title>" >>,
      << "<title>", "</title>" >>,
      << "<title>", " ", "</title>" >>,
      << "<title>", "a", "<p>", "</title>", "<title>", "p", "</title>" >> }

\* What the endpoint's fetch(url) of the page comes to: a response with
\* status 2xx and a body, a response with another status, a rejection
\* (network error, unsupported scheme), or the abort after 5000 ms.
Remotes ==
    {[kind |-> "ok", html |-> h] : h \in Pages}
        \cup {[kind |-> k, html |-> <<>>] : k \in {"notok", "error", "timeout"}}

\* fetch() rejects a url whose scheme is not http or https
RemotesFor(url) ==
    IF isValidUrl(url) THEN Remotes
    ELSE {[kind |-> "error", html |-> <<>>]}

RouteReply(status, title) == [kind |-> "route", status |-> status, title |-> title]

\* An endpoint whose catch block answers with status 500
GET_NoFallback(url, remote) ==
    IF url = Absent \/ url = <<>> THEN RouteReply(400, Undefined)
    ELSE LET u == URLParse(url)
             m == MatchTitle(remote.html)
         IN  IF ~u.ok THEN RouteReply(400, Undefined)
             ELSE IF remote.kind = "ok"
                 THEN RouteReply(200, IF m.found THEN Trim(m.text) ELSE u.hostname)
             ELSE RouteReply(500, Undefined)

\* app/api/fetch-title/route.ts GET: url is searchParams.get('url') (Absent
\* for null).  400 when it is missing or empty; new URL(url) throwing leads
\* through the catch block, where it throws again, to 400; a response that
\* is not ok, a rejected or an aborted fetch lead through the catch block to
\* the hostname; otherwise the matched title, trimmed, or the hostname.
GET(url, remote) ==
    IF url = Absent \/ url = <<>> THEN RouteReply(400, Undefined)
    ELSE LET u == URLParse(url)
             m == MatchTitle(remote.html)
         IN  IF ~u.ok THEN RouteReply(400, Undefined)
             ELSE IF remote.kind = "ok"
                 THEN RouteReply(200, IF m.found THEN Trim(m.text) ELSE u.hostname)
             ELSE RouteReply(200, u.hostname)

\* onChange of the form's inputs
setUrl(u) ==
    /\ form.url # u
    /\ form' = [form EXCEPT !.url = u]
    /\ UNCHANGED <<store, nextId, now, session, op, view, channel, urlInput,
                   verdict, searchQuery, card,
                   isSaving>>

setTitle(t) ==
    /\ form.title # t
    /\ form' = [form EXCEPT !.title = t]
    /\ UNCHANGED <<store, nextId, now, session, op, view, channel, urlInput,
                   verdict, searchQuery, card,
                   isSaving>>

\* handleUrlBlur: if (url && !title) fetchTitle(url); fetchTitle up to its
\* request (one run of fetchTitle at a time)
handleUrlBlur ==
    /\ form.pc \in {"idle", "done"}
    /\ form.url # <<>> /\ form.title = <<>>
    /\ form' = IF ~isValidUrl(form.url)
               THEN [form EXCEPT !.urlError = TRUE, !.isLoadingTitle = FALSE,
                                 !.pc = "idle", !.req = Absent,
                                 !.direct = FALSE, !.remote = NoRemote,
                                 !.reply = NoReply, !.toast = "none"]
               ELSE [form EXCEPT !.urlError = FALSE, !.isLoadingTitle = TRUE,
                                 !.pc = "request", !.req = form.url,
                                 !.direct = FALSE, !.remote = NoRemote,
                                 !.reply = NoReply, !.toast = "none"]
    /\ UNCHANGED <<store, nextId, now, session, op, view, channel, urlInput,
                   verdict, searchQuery, card,
                   isSaving>>

\* A request to the endpoint from elsewhere, with any url parameter
request(param) ==
    /\ form.pc \in {"idle", "done"}
    /\ form' = [form EXCEPT !.pc = "request", !.req = param, !.direct = TRUE,
                            !.remote = NoRemote, !.reply = NoReply]
    /\ UNCHANGED <<store, nextId, now, session, op, view, channel, urlInput,
                   verdict, searchQuery, card,
                   isSaving>>

\* The endpoint handles the request.  encodeURIComponent on the one side
\* and searchParams.get on the other hand the url over as it is.
GET_route ==
    /\ form.pc = "request"
    /\ \E remote \in RemotesFor(form.req) :
          form' = [form EXCEPT !.reply = GET(form.req, remote),
                               !.remote = remote,
                               !.pc = IF form.direct THEN "done" ELSE "reply"]
    /\ UNCHANGED <<store, nextId, now, session, op, view, channel, urlInput,
                   verdict, searchQuery, card,
                   isSaving>>

\* What the form's request can come to other than the endpoint's reply:
\* fetch() rejects or response.json() throws ("threw"), or an error
\* response with a JSON body from in front of the endpoint ("error")
fetchTitle_lost(kind) ==
    /\ form.pc = "request" /\ ~form.direct
    /\ form' = [form EXCEPT
                  !.reply = [kind |-> kind,
                             status |-> IF kind = "error" THEN 500 ELSE 0,
                             title |-> Undefined],
                  !.pc = "reply"]
    /\ UNCHANGED <<store, nextId, now, session, op, view, channel, urlInput,
                   verdict, searchQuery, card,
                   isSaving>>

\* new URL(urlToFetch).hostname
Hostname(url) == URLParse(url).hostname

\* A fetchTitle whose catch block falls back to the host name silently
fetchTitle_done_Silent ==
    /\ form.pc = "reply"
    /\ LET r == form.reply
       IN  form' =
             IF r.kind # "threw" /\ r.status = 200 /\ r.title \notin {Undefined, <<>>}
                 THEN [form EXCEPT !.title = r.title,
                                   !.isLoadingTitle = FALSE, !.pc = "done"]
             ELSE [form EXCEPT !.title = Hostname(form.req),
                               !.isLoadingTitle = FALSE, !.pc = "done"]
    /\ UNCHANGED <<store, nextId, now, session, op, view, channel, urlInput,
                   verdict, searchQuery, card,
                   isSaving>>

\* fetchTitle after its request: if (response.ok && data.title)
\* setTitle(data.title) else setTitle(hostname); catch: toast.error('Error
\* fetching title. Please enter a title manually.'); finally
\* setIsLoadingTitle(false)
fetchTitle_done ==
    /\ form.pc = "reply"
    /\ LET r == form.reply
       IN  form' =
             IF r.kind = "threw"
                 THEN [form EXCEPT !.toast = "error",
                                   !.isLoadingTitle = FALSE, !.pc = "done"]
             ELSE IF r.status = 200 /\ r.title \notin {Undefined, <<>>}
                 THEN [form EXCEPT !.title = r.title,
                                   !.isLoadingTitle = FALSE, !.pc = "done"]
             ELSE [form EXCEPT !.title = Hostname(form.req),
                               !.isLoadingTitle = FALSE, !.pc = "done"]
    /\ UNCHANGED <<store, nextId, now, session, op, view, channel, urlInput,
                   verdict, searchQuery, card,
                   isSaving>>

\* The submit button: disabled={isSaving || isLoadingTitle || !url || !title}
CanSubmit == ~form.isLoadingTitle /\ form.url # <<>> /\ form.title # <<>>

\* What is typed into the form, and the url parameters of other requests
TypedUrls   == {<<>>, <<"a">>, UrlFtp, UrlLower, UrlUpper}
TypedTitles == {<<>>, TitleA}
Params      == {Absent, <<>>, <<"a">>, <<"p",":","a">>, UrlFtp, UrlPad, UrlUpper}

NextTitle ==
    \/ \E u \in TypedUrls : setUrl(u)
    \/ \E t \in TypedTitles : setTitle(t)
    \/ handleUrlBlur
    \/ \E param \in Params : request(param)
    \/ GET_route
    \/ \E kind \in {"threw", "error"} : fetchTitle_lost(kind)
    \/ fetchTitle_done

SpecTitle == Init /\ [][NextTitle]_vars

\* ------------------------------------------------------------------------
\* The two URL validators on the same inputs
\* ------------------------------------------------------------------------
\* Strings put together from an optional leading space, a scheme, what
\* follows the scheme, a host with or without a port, and a tail.
Leads   == {<<>>, <<" ">>}
Schemes == {<<>>, <<"h","t","t","p">>, <<"h","t","t","p","s">>,
            <<"H","T","T","P">>, <<"f","t","p">>, <<"h","t","p">>}
Seps    == {<<>>, <<":">>, <<":","/">>, <<":","/","/">>}
Hosts   == {<<>>, <<"a">>, <<"A">>, <<"a"," ","a">>, <<"a",":","1">>,
            <<"a",":","p">>}
Rests   == {<<>>, <<"/">>, <<"/","a">>, <<" ">>}

UrlInputs == [lead : Leads, scheme : Schemes, sep : Seps, host : Hosts,
              rest : Rests]

\* The string typed
Typed(in) == in.lead \o in.scheme \o in.sep \o in.host \o in.rest

Verdict(accepted) == IF accepted THEN "valid" ELSE "invalid"

InitUrl ==
    /\ store = {}
    /\ nextId = 0
    /\ now = 0
    /\ session = [c \in Clients |-> NoUser]
    /\ op = [c \in Clients |-> Idle]
    /\ view = [c \in Clients |-> NoView]
    /\ channel = [c \in Clients |-> <<>>]
    /\ urlInput \in UrlInputs
    /\ verdict = [client |-> "none", server |-> "none"]
    /\ searchQuery = [c \in Clients |-> <<>>]
    /\ form = NoForm
    /\ card = [c \in Clients |-> NoCard]
    /\ isSaving = [c \in Clients |-> FALSE]

\* The forms' validator applied to the string
CheckClient ==
    /\ verdict.client = "none"
    /\ verdict' = [verdict EXCEPT !.client = Verdict(isValidUrl(Typed(urlInput)))]
    /\ UNCHANGED <<store, nextId, now, session, op, view, channel, urlInput, searchQuery, form, card, isSaving>>

\* The endpoint's validator applied to the string
CheckServer ==
    /\ verdict.server = "none"
    /\ verdict' = [verdict EXCEPT
                     !.server = Verdict(isValidHttpUrl(Typed(urlInput)))]
    /\ UNCHANGED <<store, nextId, now, session, op, view, channel, urlInput, searchQuery, form, card, isSaving>>

NextUrl == CheckClient \/ CheckServer

SpecUrl == InitUrl /\ [][NextUrl]_vars

\* ------------------------------------------------------------------------
\* Properties
\* ------------------------------------------------------------------------
RowsOf(rows, owner, url) == {r \in rows : r.user_id = owner /\ r.url = url}

\* The step in which the store answers the insert of browser c
InsertStep(c) ==
    op[c].kind = "create" /\ op[c].pc = "insert" /\ op'[c].pc = "done"

\* The step in which the store answers the update of browser c
UpdateStep(c) ==
    op[c].kind = "patch" /\ op[c].pc = "update" /\ op'[c].pc = "done"

\* C1: in every reachable state of the table, whatever creates, updates and
\* deletes ran, no two rows have the same owner and the same url, compared
\* exactly (case-sensitively).
C1_UniqueOwnerUrl ==
    \A r1, r2 \in store :
        (r1.user_id = r2.user_id /\ r1.url = r2.url) => r1 = r2

\* One owner holds http://a and http://A, and an update was refused with 409
C1_Witness ==
    /\ \E r1, r2 \in store : /\ r1.user_id = r2.user_id
                            /\ r1.url = UrlLower /\ r2.url = UrlUpper
    /\ \E c \in Clients : op[c].kind = "patch" /\ op[c].status = 409

\* Two creates of one owner for one url that both passed the pre-check and
\* both ran to the end as that owner
Raced(c, d) ==
    /\ c # d
    /\ op[c].kind = "create" /\ op[c].pc = "done"
    /\ op[d].kind = "create" /\ op[d].pc = "done"
    /\ op[c].checked /\ op[d].checked
    /\ op[c].asOwner /\ op[d].asOwner
    /\ op[c].user = op[d].user /\ op[c].url = op[d].url

\* C2: when two creates for the same owner and url run concurrently and both
\* pre-checks find nothing, exactly one insert succeeds, the other create
\* reports 'This URL is already bookmarked', and the table holds exactly one
\* row for that owner and url.
C2_RaceOneWins ==
    \A c, d \in Clients :
        Raced(c, d) =>
            /\ {op[c].toast, op[d].toast} = {"added", "already bookmarked"}
            /\ Cardinality(RowsOf(store, op[c].user, op[c].url)) = 1

C2_Witness == \E c, d \in Clients : Raced(c, d)

\* C3: uniqueness is per owner.  When another owner holds a row with the url
\* and the caller holds none, the caller's insert succeeds, and the table
\* then holds one row for the caller and the url next to the other owner's.
C3_PerOwner ==
    [][\A c \in Clients :
         ( /\ InsertStep(c)
           /\ session[c] = op[c].user
           /\ RowsOf(store, op[c].user, op[c].url) = {}
           /\ \E r \in store : r.user_id # op[c].user /\ r.url = op[c].url )
         => /\ op'[c].toast = "added"
            /\ Cardinality(RowsOf(store', op[c].user, op[c].url)) = 1
            /\ store \subseteq store'
      ]_vars

\* Two owners hold the same url, the second after a create reported success
C3_Witness ==
    \E c \in Clients, r1, r2 \in store :
        /\ r1.url = r2.url /\ r1.user_id # r2.user_id
        /\ r1.id < r2.id
        /\ op[c].kind = "create" /\ op[c].pc = "done" /\ op[c].toast = "added"
        /\ op[c].user = r2.user_id /\ op[c].url = r2.url

\* C4: every row a create writes is owned by the identity the caller is
\* authenticated as when the row is written, and a create step of a caller
\* without a session writes nothing.
C4_OwnerIsCaller ==
    [][/\ \A r \in store' :
            r.id \notin {q.id : q \in store} =>
                \E c \in Clients : /\ InsertStep(c)
                                   /\ session[c] # NoUser
                                   /\ r.user_id = session[c]
       /\ \A c \in Clients :
            (op'[c] # op[c] /\ op'[c].kind = "create" /\ session[c] = NoUser)
                => store' = store
      ]_vars

\* A create wrote a row for its caller, and the insert of a caller whose
\* session had ended was refused
C4_Witness ==
    /\ \E c \in Clients, r \in store :
          /\ op[c].kind = "create" /\ op[c].toast = "added"
          /\ r.user_id = session[c] /\ r.url = op[c].url
    /\ \E d \in Clients :
          /\ op[d].kind = "create" /\ op[d].toast = "failed to add"
          /\ session[d] = NoUser

\* C5: every row in the list of a BookmarkList, and in the result of its
\* fetch, is owned by the user the list was mounted for, whatever rows of
\* other owners the table holds and whatever events were applied.
C5_ViewOwnRows ==
    \A c \in Clients :
        /\ \A i \in DOMAIN view[c].bookmarks :
              view[c].bookmarks[i].user_id = view[c].owner
        /\ \A i \in DOMAIN view[c].data :
              view[c].data[i].user_id = view[c].owner

\* The lists of two owners both show rows, with both subscriptions joined
C5_Witness ==
    \E c, d \in Clients :
        /\ view[c].owner # view[d].owner
        /\ view[c].phase = "live" /\ view[d].phase = "live"
        /\ view[c].sub = "joined" /\ view[d].sub = "joined"
        /\ view[c].bookmarks # <<>> /\ view[d].bookmarks # <<>>

\* C6: an update that names a row of another owner changes no row and is
\* answered 404, as is an update that names no row at all.
C6_ForeignIsNotFound ==
    [][\A c \in Clients :
         ( /\ UpdateStep(c)
           /\ \/ \E r \in store : r.id = op[c].id /\ r.user_id # op[c].user
              \/ \A r \in store : r.id # op[c].id )
         => (store' = store /\ op'[c].status = 404)
      ]_vars

\* An update that named the row of another owner was answered 404
C6_Witness ==
    \E c \in Clients, r \in store :
        /\ op[c].kind = "patch" /\ op[c].pc = "done" /\ op[c].status = 404
        /\ op[c].id = r.id
        /\ session[c] # NoUser /\ r.user_id # session[c]

\* C7: a delete that removes no row (the id names a row of another owner or
\* no row) is not reported as a successful deletion.
C7_DeleteReportsNotFound ==
    \A c \in Clients :
        (op[c].kind = "delete" /\ op[c].pc = "done" /\ op[c].rows = 0)
            => op[c].toast # "deleted"

\* C8: an update by the owner of the row whose new url is the url of another
\* row of the same owner is answered 409 and changes no row: title, url and
\* updated_at of the target stay as they were.
C8_CollisionIsConflict ==
    [][\A c \in Clients :
         ( /\ UpdateStep(c)
           /\ op[c].url # Undefined
           /\ \E r, other \in store :
                 /\ r.id = op[c].id /\ r.user_id = op[c].user
                 /\ other.id # r.id
                 /\ other.user_id = op[c].user /\ other.url = op[c].url )
         => (op'[c].status = 409 /\ store' = store)
      ]_vars

\* An update was answered 409 at a time later than the target's updated_at
C8_Witness ==
    \E c \in Clients, r \in store :
        /\ op[c].kind = "patch" /\ op[c].pc = "done" /\ op[c].status = 409
        /\ r.id = op[c].id /\ r.updated_at < now

\* A body whose title or url is a string that is empty after trimming,
\* whose url is a string that is not an http or https URL, or that has
\* neither a string title nor a string url
InvalidBody(t, u) ==
    \/ IsString(t) /\ Trim(t) = <<>>
    \/ IsString(u) /\ Trim(u) = <<>>
    \/ IsString(u) /\ ~isValidUrl(Trim(u))
    \/ ~IsString(t) /\ ~IsString(u)

\* The step the handler takes to an immediate 400, the table untouched
Rejected(c) ==
    /\ op'[c].kind = "patch" /\ op'[c].pc = "done" /\ op'[c].status = 400
    /\ store' = store

\* C9: a PATCH with such a body is answered 400 at once, with or without a
\* session and whatever id it names: no store call follows and the table is
\* unchanged.  Stated on the steps: a step that is not such an answer is not
\* the step of PATCH for any such body.
C9_ValidationFirst ==
    [][\A c \in Clients :
         (Free(c) /\ op'[c] # op[c] /\ op'[c].kind = "patch" /\ ~Rejected(c))
            => \A id \in 0..MaxIds, t \in BodyTitles, u \in BodyUrls :
                   InvalidBody(t, u) => ~PATCH(c, id, t, u)
      ]_vars

\* A PATCH by the owner of a row was answered 400
C9_Witness ==
    \E c \in Clients, r \in store :
        /\ r.user_id = session[c]
        /\ op[c].kind = "patch" /\ op[c].pc = "done" /\ op[c].status = 400

\* The string starts, after an optional space, with http: or https: in
\* any case
HttpScheme(in) ==
    /\ ToLower(in.scheme) \in {<<"h","t","t","p">>, <<"h","t","t","p","s">>}
    /\ in.sep # <<>>

\* scheme://host or scheme://host:port, with or without a path
Canonical(in) ==
    /\ HttpScheme(in)
    /\ in.sep = <<":","/","/">>
    /\ in.host \in {<<"a">>, <<"A">>, <<"a",":","1">>}

InvalidForm(url, title) == ~isValidHttpUrl(url) \/ Trim(title) = <<>>

\* C11: handleSubmit returns before any store call for every submission
\* whose url is not valid or whose title is empty after trimming, and so no
\* row of the table has an empty or whitespace-only title.
C11_CreateValidates ==
    [][/\ \A c \in Clients, url \in FormUrls, title \in FormTitles :
            (InvalidForm(url, title) /\ handleSubmit(c, url, title))
                => (op'[c].pc = "done" /\ store' = store)
       /\ \A r \in store' : Trim(r.title) # <<>>
      ]_vars

\* C12: an update answered 200 replaces the target row by one with the same
\* id, owner and created_at, with the title and the url of the request where
\* it has them and the old ones where it has not, and with the updated_at
\* the handler took; every other row is unchanged.
C12_UpdateFrame ==
    [][\A c \in Clients :
         (UpdateStep(c) /\ op'[c].status = 200)
            => \E old \in store, new \in store' :
                  /\ old.id = op[c].id /\ new.id = old.id
                  /\ store' \ {new} = store \ {old}
                  /\ new.user_id = old.user_id
                  /\ new.created_at = old.created_at
                  /\ new.title = IF op[c].title = Undefined THEN old.title
                                 ELSE op[c].title
                  /\ new.url = IF op[c].url = Undefined THEN old.url
                               ELSE op[c].url
                  /\ new.updated_at = op[c].at
      ]_vars

\* An update of the title alone was answered 200 after the clock advanced,
\* with another row in the table
C12_Witness ==
    \E c \in Clients, r, other \in store :
        /\ op[c].kind = "patch" /\ op[c].pc = "done" /\ op[c].status = 200
        /\ r.id = op[c].id /\ other.id # r.id
        /\ r.title = <<"b">> /\ r.url = UrlLower
        /\ r.updated_at > r.created_at

EventStep(c, type) ==
    /\ Mounted(c) /\ view'[c].phase = view[c].phase
    /\ view'[c].sub = view[c].sub
    /\ channel[c] # <<>> /\ channel'[c] = Tail(channel[c])
    /\ Head(channel[c]).type = type

HasId(list, id) == \E i \in DOMAIN list : list[i].id = id

\* The list with the entries of this id replaced by the row, where they are
ReplacedInPlace(list, row) ==
    [i \in DOMAIN list |-> IF list[i].id = row.id THEN row ELSE list[i]]

\* C14: an INSERT event for a row prepends the row when the list has no entry
\* with its id and replaces the entry in place when it has one (so that the
\* event applied twice gives the list of the event applied once).
C14_InsertUpserts ==
    [][\A c \in Clients :
         EventStep(c, "INSERT")
            => LET R    == Head(channel[c]).rec
                   list == view[c].bookmarks
               IN  view'[c].bookmarks =
                       IF HasId(list, R.id) THEN ReplacedInPlace(list, R)
                       ELSE <<R>> \o list
      ]_vars

\* The entries of a list other than those of id X, in their order
RECURSIVE Without(_, _)
Without(list, X) ==
    IF list = <<>> THEN <<>>
    ELSE IF Head(list).id = X THEN Without(Tail(list), X)
    ELSE <<Head(list)>> \o Without(Tail(list), X)

\* C15: a DELETE event for id X removes every entry with id X and keeps the
\* other entries in their order; when the list has no such entry it stays
\* as it is, and the event applied once more changes nothing.
C15_DeleteEvent ==
    [][\A c \in Clients :
         EventStep(c, "DELETE")
            => LET ev   == Head(channel[c])
                   X    == ev.rec.id
                   list == view[c].bookmarks
                   next == view'[c].bookmarks
               IN  /\ ~HasId(next, X)
                   /\ next = Without(list, X)
                   /\ ~HasId(list, X) => next = list
                   /\ Apply(next, ev) = next
      ]_vars

\* A list applied a DELETE event and still shows another bookmark
C15_Witness ==
    \E c \in Clients :
        /\ view[c].last.type = "DELETE"
        /\ view[c].last.id \in view[c].removed
        /\ view[c].bookmarks # <<>>
        /\ ~HasId(view[c].bookmarks, view[c].last.id)

\* C16: an UPDATE event for a row whose id the list has replaces that entry
\* by the row at its position: the length of the list, the order of the ids
\* and the entries of other ids are unchanged.
C16_UpdateInPlace ==
    [][\A c \in Clients :
         (EventStep(c, "UPDATE")
              /\ HasId(view[c].bookmarks, Head(channel[c]).rec.id))
            => LET R    == Head(channel[c]).rec
                   list == view[c].bookmarks
                   next == view'[c].bookmarks
               IN  /\ Len(next) = Len(list)
                   /\ \A i \in DOMAIN list :
                         /\ next[i].id = list[i].id
                         /\ list[i].id = R.id => next[i] = R
                         /\ list[i].id # R.id => next[i] = list[i]
      ]_vars

\* A list of two applied an UPDATE event for its second entry
C16_Witness ==
    \E c \in Clients :
        /\ view[c].last.type = "UPDATE"
        /\ Len(view[c].bookmarks) = 2
        /\ view[c].bookmarks[2].id = view[c].last.id
        /\ view[c].bookmarks[2].title = <<"b">>
        /\ view[c].bookmarks[1].id # view[c].last.id

\* C17: an UPDATE event for a row whose id the list does not have prepends
\* the row to the list.
C17_UpdatePrepends ==
    [][\A c \in Clients :
         (EventStep(c, "UPDATE")
              /\ ~HasId(view[c].bookmarks, Head(channel[c]).rec.id))
            => view'[c].bookmarks = <<Head(channel[c]).rec>> \o view[c].bookmarks
      ]_vars

\* C17 as amended: an UPDATE event for a row whose id the list does not have
\* leaves the list as it is.
C17_UpdateIgnoresAbsent ==
    [][\A c \in Clients :
         (EventStep(c, "UPDATE")
              /\ ~HasId(view[c].bookmarks, Head(channel[c]).rec.id))
            => view'[c].bookmarks = view[c].bookmarks
      ]_vars

\* A list applied an UPDATE event for a row of the table that it does not
\* show
C17_Witness ==
    \E c \in Clients, r \in store :
        /\ view[c].phase = "live"
        /\ view[c].last.type = "UPDATE" /\ view[c].last.id = r.id
        /\ ~HasId(view[c].bookmarks, r.id)

\* What a list shows of its entries: id, title and url
Shown(list) ==
    {[id |-> list[i].id, title |-> list[i].title, url |-> list[i].url] :
        i \in DOMAIN list}

\* What the table holds for an owner, in the same form
Held(u) == {[id |-> r.id, title |-> r.title, url |-> r.url] : r \in Visible(u)}

\* No mutation is in flight and every list has applied the events sent to it
Quiescent ==
    /\ \A c \in Clients : Free(c)
    /\ \A c \in Clients : channel[c] = <<>>

\* C18: once no mutation is in flight and every committed change event is
\* delivered, each live subscribed list of an owner holds exactly the rows
\* the table holds for that owner, each once, without fetching again.
C18_Convergence ==
    Quiescent =>
        \A c \in Clients :
            (view[c].phase = "live" /\ view[c].sub = "joined")
                => /\ Shown(view[c].bookmarks) = Held(view[c].owner)
                   /\ Len(view[c].bookmarks) = Cardinality(Held(view[c].owner))

\* C19: a list that has applied the DELETE event of a bookmark does not show
\* that bookmark in any later state, whatever the order in which the answer
\* of its initial select and the event arrive.
C19_DeletedStaysAway ==
    \A c \in Clients :
        \A X \in view[c].removed : ~HasId(view[c].bookmarks, X)

\* The initial select of the list of browser c has been answered and the
\* list still shows the loading skeleton
Settled(c) ==
    /\ view[c].phase = "loading" /\ view[c].isLoading
    /\ view[c].fetch \in {"resolved", "failed"}

\* C20: a list whose initial select has been answered, with rows, with no
\* rows or with an error, eventually stops showing the loading skeleton
\* (isLoading becomes false, or the list is closed); after an error the
\* failure has then been reported.
C20_LeavesLoading ==
    \A c \in Clients :
        /\ Settled(c) ~> (view[c].phase # "loading" /\ ~(Mounted(c) /\ view[c].isLoading))
        /\ (Settled(c) /\ view[c].fetch = "failed")
              ~> (~Mounted(c) \/ (view[c].fetch = "error" /\ ~view[c].isLoading))

\* A list left the loading skeleton after its select failed
C20_Witness ==
    \E c \in Clients :
        /\ view[c].phase = "live" /\ ~view[c].isLoading
        /\ view[c].fetch = "error"

\* The list of browser c was unmounted and no new one is mounted
Detached(c) == view[c].phase = "detached"

\* The delete statement of browser c runs at the store in this step
DeleteStep(c) ==
    op[c].kind = "delete" /\ op[c].pc = "delete" /\ op'[c].pc = "resp"

\* C21: an unmounted list has no subscription and no queued event, and
\* nothing changes its state again: no change event, no answer of its
\* select and no handler that returns later.  A delete or an edit that was
\* under way when the list was unmounted still runs at the store.
C21_DetachedIsTerminal ==
    [][\A c \in Clients :
         /\ Detached(c)' => (view'[c].sub = "closed" /\ channel'[c] = <<>>)
         /\ (Detached(c) /\ Detached(c)') => view'[c] = view[c]
         /\ (DeleteStep(c) /\ Detached(c))
               => \A r \in store' :
                     ~(r.id = op[c].id /\ DeletePolicy(session[c], r))
         /\ (UpdateStep(c) /\ Detached(c) /\ op'[c].status = 200)
               => \E r \in store' : r.id = op[c].id /\ r.updated_at = op[c].at
      ]_vars

\* The delete of a card ran at the store and removed the row after its list
\* was unmounted
C21_Witness ==
    \E c \in Clients :
        /\ Detached(c)
        /\ op[c].kind = "delete" /\ op[c].pc = "resp" /\ op[c].rows = 1
        /\ ~op[c].attached
        /\ \A r \in store : r.id # op[c].id

\* q occurs in s as a run of consecutive characters
Substring(s, q) ==
    q = <<>> \/ \E i, j \in 1..Len(s) : i <= j /\ SubSeq(s, i, j) = q

\* The entries of the list, in their order, that have q in the lower-cased
\* title or url
RECURSIVE Matching(_, _)
Matching(list, q) ==
    IF list = <<>> THEN <<>>
    ELSE LET b    == Head(list)
             rest == Matching(Tail(list), q)
         IN  IF Substring(ToLower(b.title), q) \/ Substring(ToLower(b.url), q)
             THEN <<b>> \o rest ELSE rest

\* C22: for every list and query the rendered bookmarks are the entries, in
\* order, that have the trimmed, lower-cased query in the lower-cased title
\* or url; an empty query gives the whole list.
C22_FilterTrims ==
    \A c \in Clients :
        view[c].phase = "live"
            => filteredBookmarks(view[c].bookmarks, searchQuery[c])
                   = Matching(view[c].bookmarks, ToLower(Trim(searchQuery[c])))

\* C22 as amended: the rendered bookmarks are the entries, in order, that
\* have the lower-cased query, as typed, in the lower-cased title or url; an
\* empty query gives the whole list.
C22_FilterAsTyped ==
    \A c \in Clients :
        view[c].phase = "live"
            => LET list == view[c].bookmarks
                   q    == searchQuery[c]
               IN  /\ filteredBookmarks(list, q) = Matching(list, ToLower(q))
                   /\ q = <<>> => filteredBookmarks(list, q) = list

\* A query in upper case finds the second of two bookmarks by its url only
C22_Witness ==
    \E c \in Clients :
        /\ view[c].phase = "live" /\ Len(view[c].bookmarks) = 2
        /\ searchQuery[c] = <<"/","A">>
        /\ filteredBookmarks(view[c].bookmarks, searchQuery[c])
               = <<view[c].bookmarks[2]>>
        /\ view[c].bookmarks[1].id # view[c].bookmarks[2].id

\* Newest first
SortedDesc(list) ==
    \A i, j \in DOMAIN list : i < j => list[i].created_at >= list[j].created_at

\* The answer of the initial select is put into the list of browser c
InstallStep(c) == view[c].fetch = "resolved" /\ view'[c].fetch = "done"

\* The same bookmarks at the same positions, whatever their fields
SameIds(list, next) ==
    Len(next) = Len(list) /\ \A i \in DOMAIN list : next[i].id = list[i].id

\* C23: the list is newest first when the answer of the initial select is
\* put into it; an INSERT event puts its row at the front whatever its
\* created_at; and every step that changes a mounted list is one of these
\* two, a replacement in place, or the removal of one bookmark.
C23_OrderOfList ==
    [][\A c \in Clients :
         (Mounted(c) /\ Mounted(c)')
            => LET list == view[c].bookmarks
                   next == view'[c].bookmarks
               IN  /\ InstallStep(c) => SortedDesc(next)
                   /\ EventStep(c, "INSERT")
                         => next = <<Head(channel[c]).rec>> \o list
                   /\ next # list
                         => \/ InstallStep(c)
                            \/ EventStep(c, "INSERT")
                            \/ SameIds(list, next)
                            \/ \E X \in Ids : next = Without(list, X)
      ]_vars

\* A loaded list of two bookmarks created at different times, whose first
\* came by an INSERT event
C23_Witness ==
    \E c \in Clients :
        /\ view[c].phase = "live" /\ view[c].fetch = "done"
        /\ view[c].last.type = "INSERT"
        /\ Len(view[c].bookmarks) = 2
        /\ view[c].bookmarks[1].id = view[c].last.id
        /\ view[c].bookmarks[1].created_at > view[c].bookmarks[2].created_at

\* C24: the title endpoint answers every request in one of three ways: with
\* the trimmed title of the page when the page was fetched and has one; with
\* the host name of the url when the url parses and the fetch failed, timed
\* out, was answered with another status, or the page has no title; with
\* status 400 when the url parameter is missing or does not parse.  It
\* answers with no other status.
C24_ThreeOutcomes ==
    form.reply.kind = "route"
        => LET r    == form.reply
               u    == URLParse(form.req)
               page == MatchTitle(form.remote.html)
           IN  /\ r.status \in {200, 400}
               /\ r.status = 400 <=> (form.req = Absent \/ ~u.ok)
               /\ r.status = 200
                     => r.title = IF form.remote.kind = "ok" /\ page.found
                                  THEN Trim(page.text) ELSE u.hostname

\* The endpoint answered a request whose page could not be fetched in time
\* with the host name, in lower case
C24_Witness ==
    /\ form.reply.kind = "route" /\ form.direct
    /\ form.req = UrlUpper /\ form.remote.kind = "timeout"
    /\ form.reply.status = 200 /\ form.reply.title = <<"a">>

\* The request of fetchTitle of the form is answered in this step
TitleStep == form.pc = "reply" /\ form'.pc = "done"

\* The reply is not a title: an error response, a failed request or a
\* reply that is not JSON
TitleFailure(r) == r.kind = "threw" \/ r.status # 200

\* C25: when title resolution for a valid url fails (error response of the
\* endpoint, network failure, reply that cannot be parsed), fetchTitle
\* ends with the host name of the url in the title field and no error
\* shown, and the form can be submitted.
C25_SilentDowngrade ==
    [][(TitleStep /\ TitleFailure(form.reply))
          => /\ form'.title = Hostname(form.req)
             /\ form'.toast = "none"
             /\ ~form'.isLoadingTitle
      ]_vars

\* C25 as amended: an error response of the endpoint, or a reply without a
\* title, puts the host name of the url into the title field and shows no
\* error; a failed request or a reply that cannot be parsed leaves the title
\* field as it is and shows the error toast that asks for a title.  In both
\* cases fetchTitle ends with isLoadingTitle false, so the form can be
\* submitted as soon as it has a url and a title.
C25_DowngradeOrToast ==
    [][TitleStep
          => LET r == form.reply
             IN  /\ ~form'.isLoadingTitle
                 /\ form'.url = form.url
                 /\ r.kind = "threw"
                       => form'.title = form.title /\ form'.toast = "error"
                 /\ (r.kind # "threw" /\ (r.status # 200 \/ r.title = <<>>))
                       => /\ form'.title = Hostname(form.req)
                          /\ form'.toast = "none"
                 /\ (form'.url # <<>> /\ form'.title # <<>>) => CanSubmit'
      ]_vars

\* fetchTitle ended after an error response with the host name in the
\* title field, and the form can be submitted
C25_Witness ==
    /\ form.pc = "done" /\ ~form.direct
    /\ form.reply.kind = "error"
    /\ form.req = UrlUpper /\ form.title = <<"a">> /\ form.toast = "none"
    /\ CanSubmit

\* The subscription of browser c fails in this step
ErrorStep(c) == view[c].sub = "joined" /\ view'[c].sub = "errored"

\* C26: when the subscription of a list fails, the list reports that the
\* synchronisation is interrupted and keeps its bookmarks as they are.
C26_SyncInterrupted ==
    [][\A c \in Clients :
         ErrorStep(c)
            => /\ view'[c].notice = "sync interrupted"
               /\ view'[c].bookmarks = view[c].bookmarks
      ]_vars

\* The response to the delete, or to the edit, of a card of browser c
\* arrives in this step
DeleteAck(c) == op[c].kind = "delete" /\ op[c].pc = "resp" /\ op'[c].pc = "done"
UpdateAck(c) == op[c].kind = "patch" /\ op[c].pc = "resp" /\ op'[c].pc = "done"

\* The list of browser c is live before and after the step and differs
ListChanges(c) ==
    /\ view[c].phase = "live" /\ view'[c].phase = "live"
    /\ view'[c].bookmarks # view[c].bookmarks

C28_OwnEventEitherOrder ==
    \A c \in Clients :
        (view[c].phase = "live" /\ view[c].sub = "joined"
             /\ Free(c) /\ channel[c] = <<>>)
            => view[c].bookmarks = view[c].byEvents

\* C30: a list that shows the table's current version of a bookmark
\* replaces it only by the table's current version: neither a response that
\* arrives late nor the answer of the initial select puts an older version
\* back.
C30_NoRegress ==
    [][\A c \in Clients :
         (Mounted(c) /\ Mounted(c)')
            => \A i \in DOMAIN view[c].bookmarks, j \in DOMAIN view'[c].bookmarks :
                  LET old == view[c].bookmarks[i]
                      new == view'[c].bookmarks[j]
                  IN  (old \in store /\ new.id = old.id /\ new # old)
                          => new \in store'
      ]_vars

\* C29: in every state every id occurs at most once in the list, however
\* the answer of the initial select, the INSERT events and repeated
\* deliveries interleave.
C29_IdsOnce ==
    \A c \in Clients :
        \A i, j \in DOMAIN view[c].bookmarks :
            i # j => view[c].bookmarks[i].id # view[c].bookmarks[j].id

\* The step a PATCH request of the caller takes
PatchStep(c) ==
    /\ Free(c) /\ op'[c] # op[c] /\ op'[c].kind = "patch"

\* C31: a PATCH from a caller with no authenticated session never touches
\* the store.  It is answered at once, 400 when its body fails validation
\* and 401 when its body passes it, and no store call follows: every record
\* and every subscription's queue is as before.
C31_NoSessionNoStore ==
    [][\A c \in Clients :
         (session[c] = NoUser /\ PatchStep(c))
            => /\ op'[c].pc = "done"
               /\ op'[c].status \in {400, 401}
               /\ store' = store /\ channel' = channel
               /\ \A id \in 0..MaxIds, t \in BodyTitles, u \in BodyUrls :
                      PATCH(c, id, t, u)
                          => op'[c].status
                                = IF InvalidBody(t, u) THEN 400 ELSE 401
      ]_vars

\* A caller without a session was answered 401 while the table holds a
\* bookmark
C31_Witness ==
    \E c \in Clients :
        /\ session[c] = NoUser /\ store # {}
        /\ op[c].kind = "patch" /\ op[c].pc = "done" /\ op[c].status = 401

\* A delete or an update issued from a card of the list ends in failure
\* with this step: the delete statement returned an error, the PATCH was
\* answered with a status that is not 2xx, or the request threw
FailedCall(c) ==
    /\ op[c].attached /\ op[c].pc \in {"delete", "update", "resp"}
    /\ op'[c].pc = "done"
    /\ \/ op'[c].kind = "delete" /\ op'[c].toast = "failed to delete"
       \/ op'[c].kind = "patch" /\ op'[c].status # 200

\* C32: when a delete or an update issued from a bookmark card fails, the
\* call invokes neither onDelete nor onUpdated: the list is as it was, the
\* bookmark is still displayed if it was, and after a failed update the edit
\* dialog is open if it was, with its drafts as they were.
C32_FailureKeepsList ==
    [][\A c \in Clients :
         FailedCall(c)
            => /\ view'[c].bookmarks = view[c].bookmarks
               /\ CardShown(c, op[c].id) => CardShown(c, op[c].id)'
               /\ (op[c].kind = "patch" /\ card[c].isEditOpen)
                    => /\ card'[c].isEditOpen
                       /\ card'[c].editUrl = card[c].editUrl
                       /\ card'[c].editTitle = card[c].editTitle
      ]_vars

\* The other tab has deleted the bookmark, the Save of this tab was
\* answered 404 before the DELETE event arrived: the dialog is open and the
\* bookmark is still displayed
C32_Witness ==
    \E c \in Clients :
        /\ op[c].kind = "patch" /\ op[c].pc = "done" /\ op[c].status = 404
        /\ card[c].isEditOpen /\ card[c].id = op[c].id
        /\ CardShown(c, op[c].id)

\* The title or the url of the bookmark of the open dialog changes in the
\* list with this step, and the dialog stays open
RecordChanges(c) ==
    /\ card[c].isEditOpen /\ card'[c].isEditOpen /\ card'[c].id = card[c].id
    /\ CardShown(c, card[c].id) /\ CardShown(c, card[c].id)'
    /\ LET was == BookmarkOf(view[c].bookmarks, card[c].id)
           b   == BookmarkOf(view'[c].bookmarks, card[c].id)
       IN  b.title # was.title \/ b.url # was.url

\* Save is clicked with this step and sends its request
SaveStep(c) ==
    /\ card[c].isEditOpen /\ ~card[c].isSavingEdit /\ Free(c)
    /\ op'[c] # op[c] /\ op'[c].kind = "patch"

\* C33: while the edit dialog of a card is open, its draft url and title
\* are reset to the bookmark's url and title in the list with every step
\* that changes either of them, so that the drafts Save submits (trimmed)
\* are what the user typed after the last reset or opening, or else the
\* url and title the list shows.
C33_DraftsFollowRecord ==
    [][\A c \in Clients :
         /\ RecordChanges(c)
              => LET b == BookmarkOf(view'[c].bookmarks, card[c].id)
                 IN  /\ card'[c].editUrl = b.url
                     /\ card'[c].editTitle = b.title
                     /\ ~card'[c].dirty
         /\ SaveStep(c)
              => LET b == BookmarkOf(view[c].bookmarks, card[c].id)
                 IN  /\ op'[c].id = card[c].id
                     /\ op'[c].url = Trim(card[c].editUrl)
                     /\ op'[c].title = Trim(card[c].editTitle)
                     /\ card[c].dirty
                          \/ (card[c].editUrl = b.url
                                /\ card[c].editTitle = b.title)
      ]_vars

\* The user typed a title, an update event of the other tab's edit reset
\* the drafts to the new title, and Save has sent that title
C33_Witness ==
    \E c \in Clients :
        /\ card[c].isEditOpen /\ card[c].isSavingEdit /\ ~card[c].dirty
        /\ op[c].kind = "patch" /\ op[c].pc = "update"
        /\ op[c].title = <<"c">>
        /\ card[c].editTitle = <<"c">>

\* C34: every mutation handler releases its busy flag on every outcome.
\* Once handleSubmit has set isSaving, handleDelete isDeleting or
\* handleSaveEdit isSavingEdit, the flag is false again at some later time,
\* whether the call succeeds, is rejected as a duplicate or for want of a
\* session, gets an error response or throws, provided every call that was
\* made is answered.  Stated as: at every time each flag is false then or
\* later, which is what "a flag that is true is false again later" says.
C34_FlagsReleased ==
    \A c \in Clients :
        /\ []<>(~isSaving[c])
        /\ []<>(~card[c].isDeleting)
        /\ []<>(~card[c].isSavingEdit)

\* A Save was answered 409 and has released isSavingEdit, with the form's
\* and the delete's flags released as well
C34_Witness ==
    \E c \in Clients :
        /\ op[c].kind = "patch" /\ op[c].pc = "done" /\ op[c].status = 409
        /\ card[c].isEditOpen /\ ~card[c].isSavingEdit
        /\ ~card[c].isDeleting /\ ~isSaving[c]

====
